---- MODULE Spec2Model ----
(***************************************************************************)
(* Position Risk & Protective-Order Reconciliation Engine.                 *)
(*                                                                         *)
(* The conditional-order ledger (table price_orders) and the operations    *)
(* that write it: the entry flow (tradeExecution), the stop-adjustment     *)
(* flow (stopLossManagement) and the reconciliation script                 *)
(* (syncPriceOrders).                                                      *)
(***************************************************************************)
EXTENDS Integers, Sequences, FiniteSets, TLC

\* ------------------------------------------------------------------ bounds
\* Highest order id the venue hands out (entry orders and legs share the
\* venue's id space).
MaxOrderId == 7
\* Number of operations in a run; the clock `now` advances once per operation.
MaxTime == 4
\* Rows of trades and position_close_events together when a repair starts.
MaxRows == 4
\* Runs of the duplicate repair, one after the other.
MaxRuns == 2
\* Close events in the store when the cooldown of a symbol is asked for.
MaxEvents == 3
MaxStatsRows == 2
MaxLosses == 2
MaxTradeRows == 3

\* ------------------------------------------------------------- vocabulary
\* SQL NULL / JS null / undefined: an absent id, price or timestamp.
NULL == 0
Symbols == {"BNB", "LTC"}
\* Trigger prices a caller can ask for (a price of NULL is "not given").
Prices == {1}
LegTypes == {"stop_loss", "take_profit"}
\* What getOrder answers for an order id: the status of the order, or an
\* error when the venue does not know the order.
VenueAnswers == {"open", "finished", "cancelled", "not_found"}

VARIABLES
    price_orders,   \* the ledger: sequence of rows, in rowid order
    positions,      \* the positions table: symbol -> row (entry_order_id = NULL: no row)
    nextId,         \* the next order id the venue assigns
    now,            \* the clock
    last,           \* how the handler that returned last ended
    chain,          \* per symbol: the last complete create and the replacements after it
    proc,           \* the handlers in flight: per slot, where the handler stands
    trades,         \* the trades table: set of rows
    position_close_events,  \* the close-event table: set of rows
    fix,            \* the run of the duplicate repair: its position and its report
    clock,          \* the hour at which the cooldown of a symbol is asked for
    verdict,        \* what the cooldown check returned
    stats,          \* the loss statistics: the position of the call and its result
    penalty,        \* what the penalty calculation returned
    signal,         \* the reversal question: its inputs and what was answered
    norm            \* the runs of the timestamp normalizations: per run, its position and counts

ledger == <<price_orders, positions, nextId, now, last, chain, proc>>
scoring == <<stats, penalty>>
upkeep == <<signal, norm>>
store == <<trades, position_close_events, fix, clock, verdict, stats, penalty,
           signal, norm>>
vars == <<price_orders, positions, nextId, now, last, chain, proc,
          trades, position_close_events, fix, clock, verdict, stats, penalty,
          signal, norm>>

\* ------------------------------------------------------------ the ledger
\* (variant: a row that is not linked to the entry order)
PriceOrderUnlinked(order_id, symbol, type, trigger_price, status, created_at, position_order_id) ==
    [order_id |-> order_id, position_order_id |-> NULL,
     symbol |-> symbol, type |-> type, trigger_price |-> trigger_price,
     status |-> status, created_at |-> created_at, updated_at |-> NULL]

\* One row of price_orders.
PriceOrder(order_id, symbol, type, trigger_price, status, created_at, position_order_id) ==
    [order_id |-> order_id, position_order_id |-> position_order_id,
     symbol |-> symbol, type |-> type, trigger_price |-> trigger_price,
     status |-> status, created_at |-> created_at, updated_at |-> NULL]

HasOrderId(po, id) == \E i \in DOMAIN po : po[i].order_id = id

\* INSERT INTO price_orders without the UNIQUE constraint on order_id.
InsertPriceOrderNoUnique(po, row) == [ok |-> TRUE, po |-> Append(po, row)]

\* INSERT OR REPLACE INTO price_orders: a second row for an order id takes
\* the place of the first.
InsertOrReplace(po, row) ==
    IF HasOrderId(po, row.order_id)
    THEN [ok |-> TRUE, po |-> [i \in DOMAIN po |->
                                 IF po[i].order_id = row.order_id THEN row ELSE po[i]]]
    ELSE [ok |-> TRUE, po |-> Append(po, row)]

\* INSERT INTO price_orders: order_id is UNIQUE, a second row for an order id
\* is rejected with a constraint error.
InsertPriceOrder(po, row) ==
    IF HasOrderId(po, row.order_id)
    THEN [ok |-> FALSE, po |-> po]
    ELSE [ok |-> TRUE, po |-> Append(po, row)]

\* The rows a statement with WHERE symbol = ? AND status = 'active' touches.
ActiveOf(po, symbol) ==
    {i \in DOMAIN po : po[i].symbol = symbol /\ po[i].status = "active"}

\* SELECT position_order_id ... WHERE symbol = ? AND status = 'active'
\* AND position_order_id IS NOT NULL LIMIT 1: there is no ORDER BY, so any
\* matching row can be the one returned; NULL when no row matches.
SelectPositionOrderId(po, symbol) ==
    LET m == {po[i].position_order_id :
                i \in {j \in ActiveOf(po, symbol) : po[j].position_order_id # NULL}}
    IN  IF m = {} THEN {NULL} ELSE m

\* A cancel step that retires only the rows of one leg type.
\* (variant: the UPDATE without its status condition)
CancelAllOfSymbol(po, symbol, t) ==
    [i \in DOMAIN po |->
        IF po[i].symbol = symbol
        THEN [po[i] EXCEPT !.status = "cancelled", !.updated_at = t]
        ELSE po[i]]

CancelActiveStopOnly(po, symbol, t) ==
    [i \in DOMAIN po |->
        IF po[i].symbol = symbol /\ po[i].status = "active" /\ po[i].type = "stop_loss"
        THEN [po[i] EXCEPT !.status = "cancelled", !.updated_at = t]
        ELSE po[i]]

\* A cancel step that does not stamp updated_at.
CancelActiveNoStamp(po, symbol, t) ==
    [i \in DOMAIN po |->
        IF po[i].symbol = symbol /\ po[i].status = "active"
        THEN [po[i] EXCEPT !.status = "cancelled"]
        ELSE po[i]]

\* UPDATE price_orders SET status = 'cancelled', updated_at = ?
\* WHERE symbol = ? AND status = 'active'
CancelActive(po, symbol, t) ==
    [i \in DOMAIN po |->
        IF po[i].symbol = symbol /\ po[i].status = "active"
        THEN [po[i] EXCEPT !.status = "cancelled", !.updated_at = t]
        ELSE po[i]]

\* The order ids of the rows that `after` holds and `before` does not.
NewIds(before, after) ==
    {after[i].order_id : i \in DOMAIN after} \ {before[i].order_id : i \in DOMAIN before}

\* ------------------------------------------- reconciliation: syncPriceOrders
\* A column of a result row; a column the SELECT did not name is undefined.
Field(row, name) == IF name \in DOMAIN row THEN row[name] ELSE NULL

\* SELECT symbol, side, quantity, stop_loss, profit_target, sl_order_id,
\* tp_order_id FROM positions: the rows, with the selected columns only.
\* There is no ORDER BY: the rows come in rowid order, the order in which
\* they were inserted.
SelectPositions(pos) ==
    LET open == {s \in Symbols : pos[s].entry_order_id # NULL}
        present == CHOOSE sq \in [1..Cardinality(open) -> open] :
                       \A i, j \in 1..Cardinality(open) :
                           i < j => pos[sq[i]].rowid < pos[sq[j]].rowid
    IN  [i \in DOMAIN present |->
            [symbol        |-> present[i],
             stop_loss     |-> pos[present[i]].stop_loss,
             profit_target |-> pos[present[i]].profit_target,
             sl_order_id   |-> pos[present[i]].sl_order_id,
             tp_order_id   |-> pos[present[i]].tp_order_id]]

\* (variant: the existence check finds no row, whatever the ledger holds)
SelectIdNone(po, orderId) == {}

\* SELECT id FROM price_orders WHERE order_id = ?
SelectIdByOrderId(po, orderId) ==
    {[id |-> i] : i \in {j \in DOMAIN po : po[j].order_id = orderId}}

\* (variant: every order that is no longer open is taken for cancelled)
MapVenueStatusOpenOnly(status) ==
    IF status = "open" THEN "active" ELSE "cancelled"

\* orderDetail.status === 'open' ? 'active' :
\* orderDetail.status === 'finished' ? 'triggered' : 'cancelled'
MapVenueStatus(status) ==
    IF status = "open" THEN "active"
    ELSE IF status = "finished" THEN "triggered" ELSE "cancelled"

\* UPDATE price_orders SET position_order_id = ? WHERE order_id = ?
SetPositionOrderId(po, orderId, positionOrderId) ==
    [i \in DOMAIN po |->
        IF po[i].order_id = orderId
        THEN [po[i] EXCEPT !.position_order_id = positionOrderId]
        ELSE po[i]]

\* The legs of the selected position rows that the loop of syncPriceOrders
\* visits, in order: if (position.sl_order_id && position.stop_loss), then
\* if (position.tp_order_id && position.profit_target).
RECURSIVE LegsOf(_)
LegsOf(rows) ==
    IF rows = <<>> THEN <<>>
    ELSE LET p == Head(rows)
         IN  (IF p.sl_order_id # NULL /\ p.stop_loss # NULL
              THEN <<[position |-> p, type |-> "stop_loss", orderId |-> p.sl_order_id,
                      price |-> p.stop_loss]>> ELSE <<>>)
             \o (IF p.tp_order_id # NULL /\ p.profit_target # NULL
                 THEN <<[position |-> p, type |-> "take_profit",
                         orderId |-> p.tp_order_id, price |-> p.profit_target]>>
                 ELSE <<>>)
             \o LegsOf(Tail(rows))

\* ------------------------------------------------------------------ state
\* 开仓订单 (order.id) -> 创建持仓 (positions.entry_order_id): the position
\* row of a symbol that is opened. A symbol without a row gets the next rowid;
\* the row of a symbol that has one is written in place, or (again) deleted
\* and inserted anew, behind the rows that are there.
InsertPosition(pos, symbol, row, again) ==
    LET n == Cardinality({s \in Symbols : pos[s].entry_order_id # NULL})
        old == pos[symbol].rowid
    IN  [s \in Symbols |->
            IF s = symbol
            THEN row @@ [rowid |-> IF old = NULL THEN n + 1
                                   ELSE IF again THEN n ELSE old]
            ELSE IF old # NULL /\ again /\ pos[s].rowid > old
                 THEN [pos[s] EXCEPT !.rowid = @ - 1]
                 ELSE pos[s]]

NoChain == [P |-> NULL, n |-> 0, ids |-> {}, clean |-> TRUE]

Workers == {1, 2}
Idle == [pc |-> "idle"]

\* No repair has run; the cooldown has not been asked for.
NoFix == [pc |-> "idle", run |-> 0]
NoVerdict == [asked |-> FALSE]
NoStats == [pc |-> "idle"]
NoPenalty == [asked |-> FALSE]
NoSignal == [asked |-> "none"]
NoNorm == [k \in 1..MaxRuns |-> [pc |-> "idle"]]

\* chain[s]: P, the entry order of the last createProtectivePair on s that
\* saved both legs (NULL: none); n, the replaceProtectivePair calls on s that
\* returned since; ids, the rows those calls inserted; clean, whether every
\* store call of all of them succeeded.
\* A replacement that throws or a reconciliation that adds rows ends the chain.
\* last: how the handler that returned last ended: threw, whether it ended
\* with an error to its caller; failed, whether the store refused an INSERT
\* or UPDATE of price_orders it issued.

InitLedger ==
    /\ price_orders = <<>>
    \* no symbol has a position row
    /\ positions = [s \in Symbols |->
                      [rowid |-> NULL, entry_order_id |-> NULL, sl_order_id |-> NULL,
                       tp_order_id |-> NULL, stop_loss |-> NULL, profit_target |-> NULL]]
    /\ nextId = 1
    /\ now = 1
    /\ last = [threw |-> FALSE, failed |-> FALSE]
    /\ chain = [s \in Symbols |-> NoChain]
    /\ proc = [w \in Workers |-> Idle]

\* The ledger operations neither read nor write the trade history.
InitStore ==
    /\ trades = {}
    /\ position_close_events = {}
    /\ fix = NoFix
    /\ clock = 0
    /\ verdict = NoVerdict
    /\ stats = NoStats
    /\ penalty = NoPenalty
    /\ signal = NoSignal
    /\ norm = NoNorm

Init == InitLedger /\ InitStore

\* ------------------------------------------ the handlers, one await at a time
\* One step is the call of a handler or one awaited call of a handler in
\* flight, with its outcome: the store answers, or it refuses the call (it is
\* out of reach, or the INSERT repeats an order id). The handlers take no
\* lock: between two steps of one handler the steps of another can run.
\* `now` is the next tick of the clock, now - 1 the tick it shows; the clock
\* ticks when a handler is called.

\* A call is served by the first handler slot that is idle (which slot serves
\* a call decides nothing).
Free(w) ==
    /\ proc[w].pc = "idle"
    /\ \A v \in Workers : v < w => proc[v].pc # "idle"

\* The entry flow is called: the venue has filled the entry order and placed
\* the legs it could, and the position row is written;
\* const now = new Date().toISOString(). With no leg placed there is no row
\* to save and the block ends.
BeginCreate(w, symbol) ==
    /\ now < MaxTime
    /\ Free(w)
    /\ \E slPlaced, tpPlaced, again \in BOOLEAN, sl, tp \in Prices :
        LET positionOrderId == nextId
            slOrderId == IF slPlaced THEN nextId + 1 ELSE NULL
            tpOrderId == IF tpPlaced THEN nextId + 1 + (IF slPlaced THEN 1 ELSE 0)
                                     ELSE NULL
            legs == (IF slPlaced THEN 1 ELSE 0) + (IF tpPlaced THEN 1 ELSE 0)
        IN  /\ nextId + legs <= MaxOrderId
            /\ IF legs = 0
               THEN /\ last' = [threw |-> FALSE, failed |-> FALSE]
                    /\ chain' = [chain EXCEPT ![symbol] = NoChain]
                    /\ UNCHANGED proc
               ELSE /\ proc' = [proc EXCEPT ![w] =
                          [pc |-> IF slPlaced THEN "create_sl" ELSE "create_tp",
                           symbol |-> symbol, t |-> now,
                           positionOrderId |-> positionOrderId,
                           slOrderId |-> slOrderId, tpOrderId |-> tpOrderId,
                           actualStopLoss |-> sl, actualTakeProfit |-> tp]]
                    /\ UNCHANGED <<last, chain>>
            /\ positions' = InsertPosition(positions, symbol,
                                [entry_order_id |-> positionOrderId,
                                 sl_order_id |-> slOrderId, tp_order_id |-> tpOrderId,
                                 stop_loss |-> sl, profit_target |-> tp], again)
            /\ nextId' = nextId + legs + 1
    /\ now' = now + 1
    /\ UNCHANGED <<price_orders, store>>

\* if (slOrderId) await INSERT of the stop-loss row. An INSERT that is refused
\* goes to catch (dbError), past the take-profit INSERT: the error is logged
\* and the handler goes on.
CreateInsertStopLoss(w) ==
    /\ proc[w].pc = "create_sl"
    /\ \E failed \in BOOLEAN :
       \E r \in {IF failed THEN [ok |-> FALSE, po |-> price_orders]
                 ELSE InsertPriceOrder(price_orders,
                          PriceOrder(proc[w].slOrderId, proc[w].symbol, "stop_loss",
                                     proc[w].actualStopLoss, "active", proc[w].t,
                                     proc[w].positionOrderId))} :
        /\ price_orders' = r.po
        /\ IF r.ok /\ proc[w].tpOrderId # NULL
           THEN /\ proc' = [proc EXCEPT ![w].pc = "create_tp"]
                /\ UNCHANGED <<last, chain>>
           ELSE /\ proc' = [proc EXCEPT ![w] = Idle]
                /\ last' = [threw |-> FALSE, failed |-> ~r.ok]
                /\ chain' = [chain EXCEPT ![proc[w].symbol] = NoChain]
    /\ UNCHANGED <<positions, nextId, now, store>>

\* if (tpOrderId) await INSERT of the take-profit row; refused or not, the
\* handler goes on.
CreateInsertTakeProfit(w) ==
    /\ proc[w].pc = "create_tp"
    /\ \E failed \in BOOLEAN :
       \E r \in {IF failed THEN [ok |-> FALSE, po |-> price_orders]
                 ELSE InsertPriceOrder(price_orders,
                          PriceOrder(proc[w].tpOrderId, proc[w].symbol, "take_profit",
                                     proc[w].actualTakeProfit, "active", proc[w].t,
                                     proc[w].positionOrderId))} :
        /\ price_orders' = r.po
        /\ last' = [threw |-> FALSE, failed |-> ~r.ok]
        /\ chain' = [chain EXCEPT ![proc[w].symbol] =
                        IF proc[w].slOrderId # NULL /\ r.ok
                        THEN [P |-> proc[w].positionOrderId, n |-> 0, ids |-> {},
                              clean |-> TRUE]
                        ELSE NoChain]
    /\ proc' = [proc EXCEPT ![w] = Idle]
    /\ UNCHANGED <<positions, nextId, now, store>>

\* The stop-adjustment handler is called for the open position on `symbol`:
\* the venue has placed the legs the caller gave a price for, and the
\* position row names them.
BeginReplace(w, symbol) ==
    /\ now < MaxTime
    /\ Free(w)
    /\ positions[symbol].entry_order_id # NULL
    /\ \E stopLoss, takeProfit \in Prices \cup {NULL} :
        LET slPlaced == stopLoss # NULL
            tpPlaced == takeProfit # NULL
            stopLossOrderId == IF slPlaced THEN nextId ELSE NULL
            takeProfitOrderId == IF tpPlaced THEN nextId + (IF slPlaced THEN 1 ELSE 0)
                                             ELSE NULL
            legs == (IF slPlaced THEN 1 ELSE 0) + (IF tpPlaced THEN 1 ELSE 0)
        IN  /\ stopLoss # NULL \/ takeProfit # NULL
            /\ nextId + legs - 1 <= MaxOrderId
            /\ proc' = [proc EXCEPT ![w] =
                          [pc |-> "select", symbol |-> symbol, t |-> now,
                           stopLoss |-> stopLoss, takeProfit |-> takeProfit,
                           stopLossOrderId |-> stopLossOrderId,
                           takeProfitOrderId |-> takeProfitOrderId,
                           positionOrderId |-> NULL, inserted |-> {}]]
            /\ positions' = [positions EXCEPT ![symbol] =
                                [@ EXCEPT
                                   !.sl_order_id = IF slPlaced THEN stopLossOrderId ELSE @,
                                   !.tp_order_id = IF tpPlaced THEN takeProfitOrderId ELSE @,
                                   !.stop_loss = IF slPlaced THEN stopLoss ELSE @,
                                   !.profit_target = IF tpPlaced THEN takeProfit ELSE @]]
            /\ nextId' = nextId + legs
    /\ now' = now + 1
    /\ UNCHANGED <<price_orders, last, chain, store>>

\* Step 0: await SELECT position_order_id ... LIMIT 1; a read that fails is
\* caught and logged, positionOrderId stays null.
ReplaceSelect(w) ==
    /\ proc[w].pc = "select"
    /\ \E pick \in SelectPositionOrderId(price_orders, proc[w].symbol), failed \in BOOLEAN :
        /\ proc' = [proc EXCEPT ![w].pc = "cancel",
                                ![w].positionOrderId = IF failed THEN NULL ELSE pick]
        /\ chain' = IF failed THEN [chain EXCEPT ![proc[w].symbol].clean = FALSE]
                              ELSE chain
    /\ UNCHANGED <<price_orders, positions, nextId, now, last, store>>

\* Step 1: await UPDATE ... SET status = 'cancelled'. The call stands in no
\* try block: when it fails the handler ends with the error. Otherwise the
\* handler goes on to the first INSERT it has to make:
\* if (result.stopLossOrderId && stopLoss), if (result.takeProfitOrderId && takeProfit).
ReplaceCancel(w) ==
    /\ proc[w].pc = "cancel"
    /\ \E failed \in BOOLEAN :
        IF failed
        THEN /\ proc' = [proc EXCEPT ![w] = Idle]
             /\ last' = [threw |-> TRUE, failed |-> TRUE]
             /\ chain' = [chain EXCEPT ![proc[w].symbol] = NoChain]
             /\ UNCHANGED price_orders
        ELSE /\ price_orders' = CancelActive(price_orders, proc[w].symbol, proc[w].t)
             /\ proc' = [proc EXCEPT ![w].pc =
                           IF proc[w].stopLossOrderId # NULL /\ proc[w].stopLoss # NULL
                           THEN "insert_sl" ELSE "insert_tp"]
             /\ UNCHANGED <<last, chain>>
    /\ UNCHANGED <<positions, nextId, now, store>>

\* Step 2, first INSERT: the new stop-loss row. A refused INSERT ends the
\* handler with the error; with no take-profit row to write the handler
\* returns.
ReplaceInsertStopLoss(w) ==
    /\ proc[w].pc = "insert_sl"
    /\ \E failed \in BOOLEAN :
       \E r \in {IF failed THEN [ok |-> FALSE, po |-> price_orders]
                 ELSE InsertPriceOrder(price_orders,
                          PriceOrder(proc[w].stopLossOrderId, proc[w].symbol, "stop_loss",
                                     proc[w].stopLoss, "active", proc[w].t,
                                     proc[w].positionOrderId))} :
        /\ price_orders' = r.po
        /\ IF r.ok /\ proc[w].takeProfitOrderId # NULL /\ proc[w].takeProfit # NULL
           THEN /\ proc' = [proc EXCEPT ![w].pc = "insert_tp",
                                        ![w].inserted = NewIds(price_orders, r.po)]
                /\ UNCHANGED <<last, chain>>
           ELSE /\ proc' = [proc EXCEPT ![w] = Idle]
                /\ last' = [threw |-> ~r.ok, failed |-> ~r.ok]
                /\ chain' = [chain EXCEPT ![proc[w].symbol] =
                                IF @.P = NULL \/ ~r.ok THEN NoChain
                                ELSE [@ EXCEPT !.n = @ + 1,
                                               !.ids = @ \cup NewIds(price_orders, r.po)]]
    /\ UNCHANGED <<positions, nextId, now, store>>

\* Step 2, second INSERT: the new take-profit row; the handler returns, with
\* the error when the INSERT is refused.
ReplaceInsertTakeProfit(w) ==
    /\ proc[w].pc = "insert_tp"
    /\ \E failed \in BOOLEAN :
       \E r \in {IF failed THEN [ok |-> FALSE, po |-> price_orders]
                 ELSE InsertPriceOrder(price_orders,
                          PriceOrder(proc[w].takeProfitOrderId, proc[w].symbol,
                                     "take_profit", proc[w].takeProfit, "active",
                                     proc[w].t, proc[w].positionOrderId))} :
        /\ price_orders' = r.po
        /\ last' = [threw |-> ~r.ok, failed |-> ~r.ok]
        /\ chain' = [chain EXCEPT ![proc[w].symbol] =
                        IF @.P = NULL \/ ~r.ok THEN NoChain
                        ELSE [@ EXCEPT !.n = @ + 1,
                                       !.ids = @ \cup proc[w].inserted
                                                 \cup NewIds(price_orders, r.po)]]
    /\ proc' = [proc EXCEPT ![w] = Idle]
    /\ UNCHANGED <<positions, nextId, now, store>>

\* The reconciliation script is called and its first call goes out:
\* await SELECT ... FROM positions. A read that fails reaches the outer catch,
\* which logs the error and throws it again. `seen` is the tick the clock
\* showed when the last call of the run went out.
BeginSync(w) ==
    /\ now < MaxTime
    /\ Free(w)
    /\ \E failed \in BOOLEAN :
        IF failed
        THEN /\ last' = [threw |-> TRUE, failed |-> FALSE]
             /\ UNCHANGED proc
        ELSE \E legs \in {LegsOf(SelectPositions(positions))} :
             /\ proc' = [proc EXCEPT ![w] =
                           [pc |-> IF legs = <<>> THEN "stats" ELSE "check",
                            t |-> NULL, seen |-> now, legs |-> legs]]
             /\ UNCHANGED last
    /\ now' = now + 1
    /\ UNCHANGED <<price_orders, positions, nextId, chain, store>>

\* The run as it stands when the leg at the head of p.legs is done, by a call
\* that went out now: the loop goes on to the next leg, and past the last leg
\* to the statistics. const now = new Date().toISOString() stands at the head
\* of the loop body: the stamp is read anew (NULL: not yet read) when the
\* next leg belongs to another position.
NextLeg(p) ==
    [pc   |-> IF Len(p.legs) = 1 THEN "stats" ELSE "check",
     t    |-> IF Len(p.legs) >= 2
                 /\ p.legs[2].position.symbol = p.legs[1].position.symbol
              THEN p.t ELSE NULL,
     seen |-> now - 1,
     legs |-> Tail(p.legs)]

\* await SELECT id FROM price_orders WHERE order_id = ? for the next leg.
\* For the first leg of a position the loop has read the clock when the call
\* before this one returned, which is at some moment since that call went
\* out: handlers called in between have moved the clock. A row that exists
\* gets its position_order_id filled in when it has none and the position
\* names its entry order (it never does: the SELECT of the positions does not
\* ask for entry_order_id). The check stands outside the inner try: when it
\* fails the run ends with the error.
SyncCheck(w) ==
    /\ proc[w].pc = "check"
    /\ \E failed \in BOOLEAN,
          t \in IF proc[w].t = NULL THEN proc[w].seen..(now - 1) ELSE {proc[w].t} :
       IF failed
       THEN /\ proc' = [proc EXCEPT ![w] = Idle]
            /\ last' = [threw |-> TRUE, failed |-> FALSE]
            /\ UNCHANGED price_orders
       ELSE LET leg == Head(proc[w].legs)
                existing == SelectIdByOrderId(price_orders, leg.orderId)
                existingOrder == CHOOSE e \in existing : TRUE
                positionOrderId == Field(leg.position, "entry_order_id")
            IN  /\ UNCHANGED last
                /\ IF existing = {}
                   THEN /\ proc' = [proc EXCEPT ![w].pc = "lookup", ![w].t = t,
                                                ![w].seen = now - 1]
                        /\ UNCHANGED price_orders
                   ELSE /\ proc' = [proc EXCEPT ![w] = NextLeg([proc[w] EXCEPT !.t = t])]
                        /\ price_orders' =
                             IF /\ Field(existingOrder, "position_order_id") = NULL
                                /\ positionOrderId # NULL
                             THEN SetPositionOrderId(price_orders, leg.orderId,
                                                     positionOrderId)
                             ELSE price_orders
    /\ UNCHANGED <<positions, nextId, now, chain, store>>

\* await exchangeClient.getOrder(orderId): the venue answers with the status
\* of the order, or the call throws (the venue does not know the order, or is
\* out of reach): the error is caught, the leg is counted as skipped.
SyncLookup(w) ==
    /\ proc[w].pc = "lookup"
    /\ \E status \in VenueAnswers :
        proc' = [proc EXCEPT ![w] =
                   IF status = "not_found" THEN NextLeg(proc[w])
                   ELSE [proc[w] EXCEPT !.pc = "insert", !.seen = now - 1]
                        @@ [status |-> status]]
    /\ UNCHANGED <<price_orders, positions, nextId, now, last, chain, store>>

\* await INSERT of the missing row, with the status the venue gave; an INSERT
\* that is refused is caught, and the leg is skipped.
SyncInsert(w) ==
    /\ proc[w].pc = "insert"
    /\ \E failed \in BOOLEAN :
        LET leg == Head(proc[w].legs)
        IN  \E r \in {IF failed THEN [ok |-> FALSE, po |-> price_orders]
                     ELSE InsertPriceOrder(price_orders,
                        PriceOrder(leg.orderId, leg.position.symbol, leg.type, leg.price,
                                   MapVenueStatus(proc[w].status), proc[w].t,
                                   Field(leg.position, "entry_order_id")))} :
              /\ price_orders' = r.po
              \* a run that adds a row for a symbol ends the symbol's chain
              /\ chain' = IF r.ok THEN [chain EXCEPT ![leg.position.symbol] = NoChain]
                                  ELSE chain
    /\ proc' = [proc EXCEPT ![w] = NextLeg(proc[w])]
    /\ UNCHANGED <<positions, nextId, now, last, store>>

\* await SELECT status, type, COUNT(*) ... GROUP BY status, type, after the
\* loop; the run ends, with the error when the read fails.
SyncStats(w) ==
    /\ proc[w].pc = "stats"
    /\ \E failed \in BOOLEAN : last' = [threw |-> failed, failed |-> FALSE]
    /\ proc' = [proc EXCEPT ![w] = Idle]
    /\ UNCHANGED <<price_orders, positions, nextId, now, chain, store>>

\* The handlers take no lock: their store calls interleave in any order.
Next ==
    \/ \E w \in Workers, s \in Symbols : BeginCreate(w, s)
    \/ \E w \in Workers : CreateInsertStopLoss(w)
    \/ \E w \in Workers : CreateInsertTakeProfit(w)
    \/ \E w \in Workers, s \in Symbols : BeginReplace(w, s)
    \/ \E w \in Workers : ReplaceSelect(w)
    \/ \E w \in Workers : ReplaceCancel(w)
    \/ \E w \in Workers : ReplaceInsertStopLoss(w)
    \/ \E w \in Workers : ReplaceInsertTakeProfit(w)
    \/ \E w \in Workers : BeginSync(w)
    \/ \E w \in Workers : SyncCheck(w)
    \/ \E w \in Workers : SyncLookup(w)
    \/ \E w \in Workers : SyncInsert(w)
    \/ \E w \in Workers : SyncStats(w)

Spec == Init /\ [][Next]_vars

\* The schedule in which the handlers are called one at a time: one slot
\* serves every call, so that a handler is called only when the one before it
\* has returned. The steps are the steps of Next.
NextAlone ==
    \/ \E s \in Symbols : BeginCreate(1, s)
    \/ CreateInsertStopLoss(1)
    \/ CreateInsertTakeProfit(1)
    \/ \E s \in Symbols : BeginReplace(1, s)
    \/ ReplaceSelect(1)
    \/ ReplaceCancel(1)
    \/ ReplaceInsertStopLoss(1)
    \/ ReplaceInsertTakeProfit(1)
    \/ BeginSync(1)
    \/ SyncCheck(1)
    \/ SyncLookup(1)
    \/ SyncInsert(1)
    \/ SyncStats(1)

SpecAlone == Init /\ [][NextAlone]_vars

\* ===================================================================== claims
Rows == DOMAIN price_orders

\* The rows of `symbol` that are active and of leg type `type`.
ActiveLegs(symbol, type) ==
    {i \in Rows : /\ price_orders[i].symbol = symbol
                  /\ price_orders[i].type = type
                  /\ price_orders[i].status = "active"}

\* The rows a step has appended to the ledger.
Added == (Len(price_orders) + 1)..Len(price_orders')

\* C1: in a chain of replaceProtectivePair calls on one symbol that follows a
\* createProtectivePair with positionOrderId P, every row a replacement
\* inserted carries positionOrderId = P. Stated for the chains in which no
\* store call failed.
C1_ChainKeepsPositionOrderId ==
    \A s \in Symbols :
        (chain[s].P # NULL /\ chain[s].n >= 1 /\ chain[s].clean) =>
            \A i \in Rows :
                price_orders[i].order_id \in chain[s].ids =>
                    price_orders[i].position_order_id = chain[s].P

\* C2: after a createProtectivePair and a chain of replaceProtectivePair calls
\* on the symbol, each moving the stop, the target or both, the symbol has
\* exactly one active stop_loss row and exactly one active take_profit row,
\* both with the positionOrderId of the create, and every other row of the
\* symbol is cancelled. Stated for the chains in which no store call failed.
C2_ChainEndsWithOnePair ==
    \A s \in Symbols :
        (chain[s].P # NULL /\ chain[s].n >= 1 /\ chain[s].clean) =>
            /\ \A type \in LegTypes :
                /\ Cardinality(ActiveLegs(s, type)) = 1
                /\ \A i \in ActiveLegs(s, type) :
                       price_orders[i].position_order_id = chain[s].P
            /\ \A i \in Rows :
                   (price_orders[i].symbol = s /\ price_orders[i].status # "active")
                       => price_orders[i].status = "cancelled"

\* C3: with the operations run one at a time, every positionOrderId has at
\* most one active stop_loss row and at most one active take_profit row
\* (a row without positionOrderId belongs to no position).
C3_OneActiveLegPerPosition ==
    \A P \in 1..MaxOrderId : \A type \in LegTypes :
        Cardinality({i \in Rows : /\ price_orders[i].position_order_id = P
                                  /\ price_orders[i].type = type
                                  /\ price_orders[i].status = "active"}) <= 1

\* A replacement has retired a leg of a position and put a new active leg of
\* the same type under the same positionOrderId.
C3_Witness ==
    \E i, j \in Rows :
        /\ price_orders[i].position_order_id # NULL
        /\ price_orders[i].position_order_id = price_orders[j].position_order_id
        /\ price_orders[i].type = price_orders[j].type
        /\ price_orders[i].status = "cancelled"
        /\ price_orders[i].updated_at = price_orders[j].created_at
        /\ price_orders[j].status = "active"

\* C4: replacements of one symbol are serialized, so that after a create and
\* replaceProtectivePair calls on the symbol, concurrent or not, the symbol
\* never has two active rows of the same leg type.
C4_OneActiveLegPerSymbol ==
    \A s \in Symbols :
        (chain[s].P # NULL /\ chain[s].n >= 1) =>
            \A type \in LegTypes : Cardinality(ActiveLegs(s, type)) <= 1

\* C5: in every replaceProtectivePair, whatever runs beside it, the read of
\* positionOrderId changes no row and what it returns is the
\* positionOrderId of a row that is active then; the cancel step comes after
\* it and before the INSERTs, marks every active row of the symbol, of either
\* leg type, cancelled and stamps updatedAt, and leaves every other row as it
\* was; the INSERTs change no row that exists and the rows they add are
\* active.
C5_ReplaceCancelsAllActive ==
    [][\A w \in Workers :
        /\ (proc[w].pc = "select" /\ proc'[w] # proc[w]) =>
             /\ price_orders' = price_orders
             /\ proc'[w].pc = "cancel"
             /\ proc'[w].positionOrderId \in
                  SelectPositionOrderId(price_orders, proc[w].symbol) \cup {NULL}
        /\ (proc[w].pc = "cancel" /\ proc'[w].pc = "idle") =>
             price_orders' = price_orders
        /\ (proc[w].pc = "cancel" /\ proc'[w].pc \in {"insert_sl", "insert_tp"}) =>
             /\ DOMAIN price_orders' = Rows
             /\ \A i \in Rows :
                  price_orders'[i] =
                    IF price_orders[i].symbol = proc[w].symbol
                       /\ price_orders[i].status = "active"
                    THEN [price_orders[i] EXCEPT !.status = "cancelled",
                                                 !.updated_at = proc[w].t]
                    ELSE price_orders[i]
        /\ (proc[w].pc \in {"insert_sl", "insert_tp"} /\ proc'[w] # proc[w]) =>
             /\ \A i \in Rows : price_orders'[i] = price_orders[i]
             /\ \A i \in Added : price_orders'[i].status = "active"
      ]_vars

\* Only the stop is moved; the cancel step has just cancelled the stop-loss
\* and the take-profit row of the symbol and stamped them, and left an active
\* row of the other symbol alone.
C5_Witness ==
    \E w \in Workers :
        /\ proc[w].pc = "insert_sl" /\ proc[w].takeProfit = NULL
        /\ proc[w].positionOrderId # NULL
        /\ \A type \in LegTypes : \E i \in Rows :
            /\ price_orders[i].symbol = proc[w].symbol
            /\ price_orders[i].type = type
            /\ price_orders[i].status = "cancelled"
            /\ price_orders[i].updated_at = proc[w].t
        /\ \E i \in Rows : /\ price_orders[i].symbol # proc[w].symbol
                           /\ price_orders[i].status = "active"

\* C6: when only the stop-loss is moved, only stop-loss rows become cancelled:
\* the status of no take-profit row changes in the cancel step.
C6_StopMoveKeepsTakeProfit ==
    [][\A w \in Workers :
        (/\ proc[w].pc = "cancel" /\ proc'[w] # proc[w]
         /\ proc[w].stopLoss # NULL /\ proc[w].takeProfit = NULL) =>
            \A i \in Rows :
                price_orders[i].type = "take_profit" =>
                    price_orders'[i].status = price_orders[i].status]_vars

\* C7: in a createProtectivePair whose two legs the venue placed, whatever
\* runs beside it, an INSERT that the store accepts appends one row, the
\* active stop_loss row and then the active take_profit row, each with
\* positionOrderId = the entry order's id; no step of it changes a row that
\* exists; and it reaches the second INSERT only when the first was accepted.
C7_CreateInsertsPair ==
    [][\A w \in Workers :
        (/\ proc[w].pc \in {"create_sl", "create_tp"} /\ proc'[w] # proc[w]
         /\ proc[w].slOrderId # NULL /\ proc[w].tpOrderId # NULL) =>
            LET sl == proc[w].pc = "create_sl"
                accepted == IF sl THEN proc'[w].pc = "create_tp" ELSE ~last'.failed
            IN  /\ \A i \in Rows : price_orders'[i] = price_orders[i]
                /\ Len(price_orders') = Len(price_orders) + (IF accepted THEN 1 ELSE 0)
                /\ ~sl => HasOrderId(price_orders, proc[w].slOrderId)
                /\ accepted =>
                     LET row == price_orders'[Len(price_orders')]
                     IN  /\ row.type = IF sl THEN "stop_loss" ELSE "take_profit"
                         /\ row.order_id = IF sl THEN proc[w].slOrderId
                                                 ELSE proc[w].tpOrderId
                         /\ row.status = "active"
                         /\ row.symbol = proc[w].symbol
                         /\ row.position_order_id = proc[w].positionOrderId
                         /\ proc[w].positionOrderId # NULL
      ]_vars

\* A pair was saved for a second position while the rows of the first exist.
C7_Witness ==
    /\ ~last.failed
    /\ \A w \in Workers : proc[w].pc = "idle"
    /\ Len(price_orders) >= 4
    /\ LET sl == price_orders[Len(price_orders) - 1]
           tp == price_orders[Len(price_orders)]
       IN  /\ sl.type = "stop_loss" /\ tp.type = "take_profit"
           /\ sl.status = "active" /\ tp.status = "active"
           /\ sl.symbol = tp.symbol
           /\ sl.position_order_id = positions[sl.symbol].entry_order_id
           /\ tp.position_order_id = sl.position_order_id
           /\ tp.order_id = sl.order_id + 1
           /\ sl.order_id = sl.position_order_id + 1

\* C8: in createProtectivePair a refused INSERT of the stop-loss row does not
\* keep the INSERT of the take-profit row from being issued: after the step
\* of the first INSERT the handler stands before the second.
C8_LegsSavedIndependently ==
    [][\A w \in Workers :
        (/\ proc[w].pc = "create_sl" /\ proc'[w] # proc[w]
         /\ proc[w].tpOrderId # NULL) =>
            proc'[w].pc = "create_tp"]_vars

\* C9: a createProtectivePair or replaceProtectivePair in which the store
\* refused a ledger write ends with an error to its caller.
C9_WriteFailurePropagates == last.failed => last.threw

\* C10: the ledger never holds two rows with one orderId, however the
\* handlers interleave.
C10_OrderIdUnique ==
    \A i, j \in Rows :
        price_orders[i].order_id = price_orders[j].order_id => i = j

\* The reconciliation found a leg missing and is about to INSERT it, and
\* meanwhile another handler has inserted the row for that order id.
C10_Witness ==
    \E w \in Workers :
        /\ proc[w].pc = "insert"
        /\ HasOrderId(price_orders, Head(proc[w].legs).orderId)

\* ------------------------------------------------------ the trade history
\* Instants are counted in ticks of three minutes.
TicksPerHour == 20

\* A stored timestamp: the instant and the zone its text is written in,
\* "Z" (toISOString) or "+08:00" (the earlier writer).
Zones == {"Z", "+08:00"}
Stamp(at, zone) == [at |-> at, zone |-> zone]

\* The wall-clock time the text of a stamp spells out.
LocalHour(ts) == ts.at + (IF ts.zone = "+08:00" THEN 8 * TicksPerHour ELSE 0)

\* Text order of two stamps, which is what ORDER BY on a TEXT column uses:
\* by the spelled date and time, then "+08:00" before ".000Z".
TextBefore(a, b) ==
    \/ LocalHour(a) < LocalHour(b)
    \/ LocalHour(a) = LocalHour(b) /\ a.zone = "+08:00" /\ b.zone = "Z"

\* The empty text '' as a trigger_order_id.
Blank == -1

\* SELECT order_id ... FROM trades WHERE type = 'close'
\* GROUP BY order_id HAVING count > 1
CloseCount(tr, orderId) ==
    Cardinality({r \in tr : r.type = "close" /\ r.order_id = orderId})

DuplicateTrades(tr) ==
    {o \in {r.order_id : r \in tr} : CloseCount(tr, o) > 1}

\* SELECT trigger_order_id ... FROM position_close_events
\* WHERE trigger_order_id IS NOT NULL GROUP BY trigger_order_id HAVING count > 1
EventCount(ev, triggerOrderId) ==
    Cardinality({r \in ev : r.trigger_order_id = triggerOrderId})

DuplicateEvents(ev) ==
    {g \in {r.trigger_order_id : r \in ev} \ {NULL} : EventCount(ev, g) > 1}

\* ORDER BY count DESC: the groups in an order of falling count; groups of
\* equal count come in either order.
GroupOrders(groups, count) ==
    {sq \in [1..Cardinality(groups) -> groups] :
        /\ \A i, j \in DOMAIN sq : sq[i] = sq[j] => i = j
        /\ \A i, j \in DOMAIN sq : i < j => count[sq[i]] >= count[sq[j]]}

\* SELECT id, timestamp FROM trades WHERE order_id = ?
TradeRecords(tr, orderId) ==
    {[id |-> r.id, stamp |-> r.timestamp] : r \in {x \in tr : x.order_id = orderId}}

\* SELECT id, created_at FROM position_close_events WHERE trigger_order_id = ?
EventRecords(ev, triggerOrderId) ==
    {[id |-> r.id, stamp |-> r.created_at] :
        r \in {x \in ev : x.trigger_order_id = triggerOrderId}}

\* ORDER BY timestamp ASC: the rows in rising text order; rows of equal
\* text come in either order.
OrderByStampAsc(recs) ==
    {sq \in [1..Cardinality(recs) -> recs] :
        /\ \A i, j \in DOMAIN sq : sq[i] = sq[j] => i = j
        /\ \A i, j \in DOMAIN sq : i < j => ~TextBefore(sq[j].stamp, sq[i].stamp)}

\* (variant: only the first duplicate is deleted)
DeleteIdsFirstOnly(records) == <<records[2].id>>

\* records.rows.slice(1).map(r => r.id)
DeleteIds(records) == [i \in 1..(Len(records) - 1) |-> records[i + 1].id]

\* DELETE FROM <table> WHERE id = ?
DeleteById(rows, id) == {r \in rows : r.id # id}

\* The tables a repair can find. Rows carry ids 1..n; the order of the ids
\* decides nothing, so the rows are listed in one fixed order.
TradeRank(r) ==
    r.order_id * 100 + (IF r.type = "close" THEN 0 ELSE 50)
    + 2 * r.timestamp.at + (IF r.timestamp.zone = "Z" THEN 1 ELSE 0)

TradeTables(n) ==
    {{[id |-> i, order_id |-> sq[i].order_id, type |-> sq[i].type,
       timestamp |-> sq[i].timestamp] : i \in 1..n} :
        sq \in {q \in [1..n -> [order_id : {1, 2}, type : {"close", "open"},
                                timestamp : {Stamp(1, "Z"), Stamp(2, "Z"),
                                             Stamp(0, "+08:00")}]] :
                  \A i \in 1..(n - 1) : TradeRank(q[i]) <= TradeRank(q[i + 1])}}

EventRank(r) == r.trigger_order_id * 100 + r.created_at.at

EventTables(n) ==
    {{[id |-> i, trigger_order_id |-> sq[i].trigger_order_id,
       created_at |-> sq[i].created_at, symbol |-> "BNB", pnl |-> -1,
       pnl_percent |-> -5, close_reason |-> "stop_loss"] : i \in 1..n} :
        sq \in {q \in [1..n -> [trigger_order_id : {NULL, Blank, 1},
                                created_at : {Stamp(1, "Z"), Stamp(2, "Z")}]] :
                  \A i \in 1..(n - 1) : EventRank(q[i]) <= EventRank(q[i + 1])}}

\* ------------------------------------------- the repair, one await at a time
\* fix: pc, the statement the run stands before ("exit0": process.exit(0)
\* after the first scan, "done": ran to its end, "failed": process.exit(1));
\* run, the runs started; prev, how the run before ended; before, the tables
\* when the run started; groups, the duplicate groups still to handle; dels,
\* the ids still to delete of the group at hand and n, how many they were;
\* found, the groups the scans returned; totalDeleted, the script's counter;
\* failedAt, the statement that failed and the group it was handling.
InitRepair ==
    /\ InitLedger
    /\ \E k, m \in 0..MaxRows :
         /\ k + m <= MaxRows
         /\ trades \in TradeTables(k)
         /\ position_close_events \in EventTables(m)
    /\ fix = NoFix
    /\ clock = 0
    /\ verdict = NoVerdict
    /\ stats = NoStats
    /\ penalty = NoPenalty
    /\ signal = NoSignal
    /\ norm = NoNorm

FixEnded == fix.pc \in {"idle", "exit0", "done", "failed"}

Failed(at, group) == [fix EXCEPT !.pc = "failed", !.failedAt = [at |-> at, group |-> group]]

\* main() up to the first scan: "1. 查找重复的订单ID".
FixScanTrades ==
    /\ FixEnded
    /\ fix.run < MaxRuns
    /\ \E failed \in BOOLEAN :
        LET start == [pc |-> "scanTrades", run |-> fix.run + 1, prev |-> fix.pc,
                      before |-> [trades |-> trades,
                                  position_close_events |-> position_close_events],
                      groups |-> <<>>, dels |-> <<>>, n |-> 0, found |-> 0,
                      totalDeleted |-> 0, failedAt |-> [at |-> "", group |-> NULL]]
            duplicates == DuplicateTrades(trades)
        IN  IF failed
            THEN fix' = [start EXCEPT !.pc = "failed",
                                      !.failedAt = [at |-> "scanTrades", group |-> NULL]]
            ELSE IF duplicates = {}
            THEN fix' = [start EXCEPT !.pc = "exit0"]
            ELSE \E order \in GroupOrders(duplicates,
                                          [o \in duplicates |-> CloseCount(trades, o)]) :
                    fix' = [start EXCEPT !.pc = "readTrades", !.groups = order,
                                         !.found = Cardinality(duplicates)]
    /\ UNCHANGED <<ledger, trades, position_close_events, clock, verdict, scoring, upkeep>>

\* "获取该订单ID的所有记录": the rows of the next group, oldest text first.
FixReadTrades ==
    /\ fix.pc = "readTrades"
    /\ \E failed \in BOOLEAN :
        IF failed THEN fix' = Failed("readTrades", Head(fix.groups))
        ELSE \E records \in OrderByStampAsc(TradeRecords(trades, Head(fix.groups))) :
               IF Len(records) <= 1
               THEN fix' = [fix EXCEPT !.groups = Tail(@),
                               !.pc = IF Tail(fix.groups) = <<>> THEN "scanEvents"
                                                                 ELSE "readTrades"]
               ELSE fix' = [fix EXCEPT !.pc = "deleteTrades",
                                       !.dels = DeleteIds(records),
                                       !.n = Len(DeleteIds(records))]
    /\ UNCHANGED <<ledger, trades, position_close_events, clock, verdict, scoring, upkeep>>

\* DELETE FROM trades WHERE id = ?, for the next of deleteIds.
FixDeleteTrade ==
    /\ fix.pc = "deleteTrades"
    /\ \E failed \in BOOLEAN :
        IF failed
        THEN /\ fix' = Failed("deleteTrades", Head(fix.groups))
             /\ UNCHANGED trades
        ELSE /\ trades' = DeleteById(trades, Head(fix.dels))
             /\ fix' = IF Tail(fix.dels) # <<>>
                       THEN [fix EXCEPT !.dels = Tail(@)]
                       ELSE [fix EXCEPT !.dels = <<>>,
                                !.totalDeleted = @ + fix.n,
                                !.groups = Tail(@),
                                !.pc = IF Tail(fix.groups) = <<>> THEN "scanEvents"
                                                                  ELSE "readTrades"]
    /\ UNCHANGED <<ledger, position_close_events, clock, verdict, scoring, upkeep>>

\* "3. 同样处理 position_close_events 表的重复": the second scan.
FixScanEvents ==
    /\ fix.pc = "scanEvents"
    /\ \E failed \in BOOLEAN :
        LET duplicateEvents == DuplicateEvents(position_close_events)
        IN  IF failed THEN fix' = Failed("scanEvents", NULL)
            ELSE IF duplicateEvents = {}
            THEN fix' = [fix EXCEPT !.pc = "stats"]
            ELSE \E order \in GroupOrders(duplicateEvents,
                                [g \in duplicateEvents |->
                                    EventCount(position_close_events, g)]) :
                    fix' = [fix EXCEPT !.pc = "readEvents", !.groups = order,
                                       !.found = @ + Cardinality(duplicateEvents)]
    /\ UNCHANGED <<ledger, trades, position_close_events, clock, verdict, scoring, upkeep>>

FixReadEvents ==
    /\ fix.pc = "readEvents"
    /\ \E failed \in BOOLEAN :
        IF failed THEN fix' = Failed("readEvents", Head(fix.groups))
        ELSE \E records \in OrderByStampAsc(
                               EventRecords(position_close_events, Head(fix.groups))) :
               IF Len(records) <= 1
               THEN fix' = [fix EXCEPT !.groups = Tail(@),
                               !.pc = IF Tail(fix.groups) = <<>> THEN "stats"
                                                                 ELSE "readEvents"]
               ELSE fix' = [fix EXCEPT !.pc = "deleteEvents",
                                       !.dels = DeleteIds(records),
                                       !.n = Len(DeleteIds(records))]
    /\ UNCHANGED <<ledger, trades, position_close_events, clock, verdict, scoring, upkeep>>

FixDeleteEvent ==
    /\ fix.pc = "deleteEvents"
    /\ \E failed \in BOOLEAN :
        IF failed
        THEN /\ fix' = Failed("deleteEvents", Head(fix.groups))
             /\ UNCHANGED position_close_events
        ELSE /\ position_close_events' = DeleteById(position_close_events, Head(fix.dels))
             /\ fix' = IF Tail(fix.dels) # <<>>
                       THEN [fix EXCEPT !.dels = Tail(@)]
                       ELSE [fix EXCEPT !.dels = <<>>,
                                !.totalDeleted = @ + fix.n,
                                !.groups = Tail(@),
                                !.pc = IF Tail(fix.groups) = <<>> THEN "stats"
                                                                  ELSE "readEvents"]
    /\ UNCHANGED <<ledger, trades, clock, verdict, scoring, upkeep>>

\* "4. 显示修复后的统计": the closing count.
FixStats ==
    /\ fix.pc = "stats"
    /\ \E failed \in BOOLEAN :
        fix' = IF failed THEN Failed("stats", NULL) ELSE [fix EXCEPT !.pc = "done"]
    /\ UNCHANGED <<ledger, trades, position_close_events, clock, verdict, scoring, upkeep>>

NextRepair ==
    \/ FixScanTrades
    \/ FixReadTrades
    \/ FixDeleteTrade
    \/ FixScanEvents
    \/ FixReadEvents
    \/ FixDeleteEvent
    \/ FixStats

SpecRepair == InitRepair /\ [][NextRepair]_vars

\* --------------------------------------------- cooldown: isSymbolInCooldown
\* Hours of the rules: the look-back of the query and the four cooldowns.
WindowHours == 24
SingleLossPercent == 15
SingleLossHours == 12
RepeatedLossHours == 24
FrequentLossHours == 48
ReversalHours == 6
HoursPerDay == 24

\* A number of hours, in ticks.
Hours(h) == h * TicksPerHour

\* The calendar day an instant falls in.
DayOf(hour) == hour \div Hours(HoursPerDay)

\* (variant: the rows of the day the window starts on are left out)
AfterSqlDate(ts, hour) == DayOf(LocalHour(ts)) > DayOf(hour)

\* created_at > datetime('now', '-24 hours'), both sides TEXT: datetime()
\* yields 'YYYY-MM-DD HH:MM:SS' and created_at is ISO text with a 'T' after
\* the date, so the dates decide and on equal dates 'T' sorts after ' '.
AfterSqlDatetime(ts, hour) == DayOf(LocalHour(ts)) >= DayOf(hour)

\* new Date(text).getTime()
ParseDate(ts) == ts.at

\* Math.abs(Number.parseFloat(row.pnl_percent || "0"))
LossPercent(row) == IF row.pnl_percent < 0 THEN -row.pnl_percent ELSE row.pnl_percent

\* The rows of the query, before ORDER BY.
LossRows(ev, symbol, hour) ==
    {r \in ev : /\ r.symbol = symbol
                /\ r.pnl < 0
                /\ AfterSqlDatetime(r.created_at, hour - Hours(WindowHours))}

\* ORDER BY created_at DESC, mapped to losses: latest text first; rows of
\* equal text come in either order.
SelectLosses(ev, symbol, hour) ==
    LET rows == LossRows(ev, symbol, hour)
    IN  {[i \in DOMAIN sq |-> [symbol      |-> sq[i].symbol,
                               lossPercent |-> LossPercent(sq[i]),
                               closeReason |-> sq[i].close_reason,
                               closedAt    |-> sq[i].created_at]] :
            sq \in {q \in [1..Cardinality(rows) -> rows] :
                      /\ \A i, j \in DOMAIN q : q[i] = q[j] => i = j
                      /\ \A i, j \in DOMAIN q :
                           i < j => ~TextBefore(q[i].created_at, q[j].created_at)}}

\* remainingHours is kept in tenths of an hour.
NotInCooldown == [inCooldown |-> FALSE, rule |-> 0, cooldownUntil |-> NULL,
                  remainingHours |-> 0]

\* (variant: the remaining time rounded down)
RemainingHoursFloor(cooldownUntil, hour) == ((cooldownUntil - hour) * 10) \div TicksPerHour

\* Math.ceil(remainingHours * 10) / 10, with
\* remainingHours = (cooldownUntil.getTime() - now.getTime()) / (1000 * 60 * 60)
RemainingHours(cooldownUntil, hour) ==
    ((cooldownUntil - hour) * 10 + TicksPerHour - 1) \div TicksPerHour

\* return { inCooldown: true, reason, cooldownUntil, remainingHours }
InCooldown(rule, cooldownUntil, hour) ==
    [inCooldown |-> TRUE, rule |-> rule, cooldownUntil |-> cooldownUntil,
     remainingHours |-> RemainingHours(cooldownUntil, hour)]

\* (variant: the rules look at the oldest row of the query)
OldestLoss(losses) == losses[Len(losses)]

\* const recentLoss = losses[0]
RecentLoss(losses) == losses[1]

\* (variant: no row counts as a trend-reversal close)
NoReversalLoss(losses) == FALSE

\* losses.some(l => l.closeReason === 'trend_reversal')
HasReversalLoss(losses) ==
    \E i \in DOMAIN losses : losses[i].closeReason = "trend_reversal"

\* losses.find(l => l.closeReason === 'trend_reversal')
FirstReversal(losses) ==
    losses[CHOOSE i \in DOMAIN losses :
              /\ losses[i].closeReason = "trend_reversal"
              /\ \A j \in 1..(i - 1) : losses[j].closeReason # "trend_reversal"]

\* (variant: the longest open window wins, whatever the order of the rules)
IsSymbolInCooldownLongest(losses, hour) ==
    LET closedAt == ParseDate(RecentLoss(losses).closedAt)
        open == {w \in {[rule |-> 1, until |-> closedAt + Hours(SingleLossHours),
                         on |-> RecentLoss(losses).lossPercent >= SingleLossPercent],
                        [rule |-> 2, until |-> closedAt + Hours(RepeatedLossHours),
                         on |-> Len(losses) >= 2],
                        [rule |-> 3, until |-> closedAt + Hours(FrequentLossHours),
                         on |-> Len(losses) >= 3]} : w.on /\ hour < w.until}
        longest == CHOOSE w \in open : \A x \in open : x.until <= w.until
    IN  IF Len(losses) = 0 \/ open = {} THEN NotInCooldown
        ELSE InCooldown(longest.rule, longest.until, hour)

\* The rules of isSymbolInCooldown over the rows the query returned, at
\* `hour`: the first rule whose window is still open decides.
IsSymbolInCooldown(losses, hour) ==
    LET until1 == ParseDate(RecentLoss(losses).closedAt) + Hours(SingleLossHours)
        until2 == ParseDate(RecentLoss(losses).closedAt) + Hours(RepeatedLossHours)
        until3 == ParseDate(RecentLoss(losses).closedAt) + Hours(FrequentLossHours)
        until4 == ParseDate(FirstReversal(losses).closedAt) + Hours(ReversalHours)
    IN  IF Len(losses) = 0 THEN NotInCooldown
        ELSE IF RecentLoss(losses).lossPercent >= SingleLossPercent /\ hour < until1
        THEN InCooldown(1, until1, hour)
        ELSE IF Len(losses) >= 2 /\ hour < until2
        THEN InCooldown(2, until2, hour)
        ELSE IF Len(losses) >= 3 /\ hour < until3
        THEN InCooldown(3, until3, hour)
        ELSE IF HasReversalLoss(losses) /\ hour < until4
        THEN InCooldown(4, until4, hour)
        ELSE NotInCooldown

\* The close events the check can find: losses of BNB at, below and above
\* the single-loss threshold, a gain, and a loss of the other symbol, closed
\* at one of a few hours. The clock stands after all of them.
CloseKinds ==
    <<[symbol |-> "BNB", pnl |-> -3, pnl_percent |-> -18, close_reason |-> "stop_loss"],
      [symbol |-> "BNB", pnl |-> -2, pnl_percent |-> -15, close_reason |-> "stop_loss"],
      [symbol |-> "BNB", pnl |-> -1, pnl_percent |-> -14, close_reason |-> "stop_loss"],
      [symbol |-> "BNB", pnl |-> -1, pnl_percent |-> -14, close_reason |-> "trend_reversal"],
      [symbol |-> "BNB", pnl |-> 4, pnl_percent |-> 20, close_reason |-> "take_profit"],
      [symbol |-> "LTC", pnl |-> -3, pnl_percent |-> -18, close_reason |-> "trend_reversal"]>>
EventHours == <<8, 26, 36, 42>>
ClockHours == {Hours(44), Hours(44) + 1, Hours(48)}

\* The n-th combination of kind and hour, as a row with id `id`.
CloseEvent(id, n) ==
    LET kind == CloseKinds[((n - 1) % Len(CloseKinds)) + 1]
        hour == EventHours[((n - 1) \div Len(CloseKinds)) + 1]
    IN  [id |-> id, trigger_order_id |-> NULL, symbol |-> kind.symbol,
         pnl |-> kind.pnl, pnl_percent |-> kind.pnl_percent,
         close_reason |-> kind.close_reason, created_at |-> Stamp(Hours(hour), "Z")]

\* The rising sequences of n combinations, none below `lo`.
RECURSIVE RisingChoices(_, _)
RisingChoices(n, lo) ==
    IF n = 0 THEN {<<>>}
    ELSE UNION {{<<a>> \o t : t \in RisingChoices(n - 1, a + 1)} :
                  a \in lo..(Len(CloseKinds) * Len(EventHours))}

\* The tables of n rows, ids in the order of closing.
CloseEventTables(n, hour) ==
    {tb \in {{CloseEvent(i, sq[i]) : i \in 1..n} : sq \in RisingChoices(n, 1)} :
        \A r \in tb : r.created_at.at <= hour}

InitCooldown ==
    /\ InitLedger
    /\ trades = {}
    /\ fix = NoFix
    /\ clock \in ClockHours
    /\ \E n \in 0..MaxEvents : position_close_events \in CloseEventTables(n, clock)
    /\ verdict = NoVerdict
    /\ stats = NoStats
    /\ penalty = NoPenalty
    /\ signal = NoSignal
    /\ norm = NoNorm

\* isSymbolInCooldown(symbol): the query, then the rules; a failed query is
\* caught and answered with "not in cooldown".
EvaluateCooldown(symbol) ==
    /\ ~verdict.asked
    /\ stats.pc = "idle"
    /\ \E failed \in BOOLEAN :
        IF failed
        THEN verdict' = [asked |-> TRUE, symbol |-> symbol, failed |-> TRUE,
                         threw |-> FALSE] @@ NotInCooldown
        ELSE \E losses \in SelectLosses(position_close_events, symbol, clock) :
                verdict' = [asked |-> TRUE, symbol |-> symbol, failed |-> FALSE,
                            threw |-> FALSE] @@ IsSymbolInCooldown(losses, clock)
    /\ UNCHANGED <<ledger, trades, position_close_events, fix, clock, scoring, upkeep>>

NextCooldown == \E symbol \in Symbols : EvaluateCooldown(symbol)

SpecCooldown == InitCooldown /\ [][NextCooldown]_vars

\* ------------------------------------------- cooldown: asking again later
\* Time passes until the end the answer announced, or just beyond it; the
\* time of the first call is kept in `since`.
AdvanceClock ==
    /\ verdict.asked /\ ~verdict.failed /\ verdict.inCooldown
    /\ "since" \notin DOMAIN verdict
    /\ stats.pc = "idle"
    /\ clock' \in {verdict.cooldownUntil, verdict.cooldownUntil + 1}
    /\ verdict' = [since |-> clock] @@ verdict
    /\ UNCHANGED <<ledger, trades, position_close_events, fix, scoring, upkeep>>

\* isSymbolInCooldown(symbol) once more, over the same table; the first
\* answer is kept in `first`.
EvaluateCooldownAgain ==
    /\ "since" \in DOMAIN verdict
    /\ "first" \notin DOMAIN verdict
    /\ \E failed \in BOOLEAN :
        IF failed
        THEN verdict' = [asked |-> TRUE, symbol |-> verdict.symbol, failed |-> TRUE,
                         threw |-> FALSE, first |-> verdict] @@ NotInCooldown
        ELSE \E losses \in SelectLosses(position_close_events, verdict.symbol, clock) :
                verdict' = [asked |-> TRUE, symbol |-> verdict.symbol, failed |-> FALSE,
                            threw |-> FALSE, first |-> verdict]
                           @@ IsSymbolInCooldown(losses, clock)
    /\ UNCHANGED <<ledger, trades, position_close_events, fix, clock, scoring, upkeep>>

NextCooldownLater ==
    \/ \E symbol \in Symbols : EvaluateCooldown(symbol)
    \/ AdvanceClock
    \/ EvaluateCooldownAgain

SpecCooldownLater == InitCooldown /\ [][NextCooldownLater]_vars

\* ----------------------------------------------- scoring: getSymbolLossStats
LongWindowHours == 48

\* Averages are counted in sixtieths, which keeps the mean of up to six
\* whole percentages exact.
AvgUnit == 60

\* WHERE symbol = ? AND pnl < 0 AND created_at > datetime('now', '-N hours')
LossRowsWithin(ev, symbol, hour, hours) ==
    {r \in ev : /\ r.symbol = symbol
                /\ r.pnl < 0
                /\ AfterSqlDatetime(r.created_at, hour - Hours(hours))}

\* rows.reduce((sum, row) => sum + Number.parseFloat(row.pnl || "0"), 0)
RECURSIVE SumPnl(_)
SumPnl(rows) ==
    IF rows = {} THEN 0
    ELSE LET row == CHOOSE r \in rows : TRUE
         IN  row.pnl + SumPnl(rows \ {row})

\* rows.reduce((sum, row) => sum + Math.abs(Number.parseFloat(row.pnl_percent || "0")), 0)
RECURSIVE SumLossPercent(_)
SumLossPercent(rows) ==
    IF rows = {} THEN 0
    ELSE LET row == CHOOSE r \in rows : TRUE
         IN  LossPercent(row) + SumLossPercent(rows \ {row})

\* The struct of the catch branch.
ZeroStats ==
    [losses24h |-> 0, losses48h |-> 0, totalLoss24h |-> 0, totalLoss48h |-> 0,
     avgLossPercent24h |-> 0, hasReversalLoss |-> FALSE]

\* The struct getSymbolLossStats builds from the rows of its two reads.
LossStats(losses24h, losses48h) ==
    [losses24h         |-> Cardinality(losses24h),
     losses48h         |-> Cardinality(losses48h),
     totalLoss24h      |-> SumPnl(losses24h),
     totalLoss48h      |-> SumPnl(losses48h),
     avgLossPercent24h |-> IF Cardinality(losses24h) > 0
                           THEN (SumLossPercent(losses24h) * AvgUnit)
                                  \div Cardinality(losses24h)
                           ELSE 0,
     hasReversalLoss   |-> \E row \in losses24h : row.close_reason = "trend_reversal"]

\* (variant: a failed read is not caught)
StatsFailedThrows(symbol, read) ==
    [pc |-> "done", symbol |-> symbol, failedAt |-> read, threw |-> TRUE, result |-> ZeroStats]

\* catch (error) { logger.error(...); return <all zero> }
StatsFailed(symbol, read) ==
    [pc |-> "done", symbol |-> symbol, failedAt |-> read, threw |-> FALSE, result |-> ZeroStats]

\* The tables the statistics are asked over: those of the cooldown check, or
\* tables the duplicate repair has work on, which starts with a duplicated
\* pair of trades.
InitStats ==
    /\ InitLedger
    /\ fix = NoFix
    /\ verdict = NoVerdict
    /\ stats = NoStats
    /\ penalty = NoPenalty
    /\ signal = NoSignal
    /\ norm = NoNorm
    /\ \/ /\ clock \in ClockHours
          /\ trades = {}
          /\ \E n \in 0..MaxStatsRows :
                position_close_events \in CloseEventTables(n, clock)
       \/ /\ clock = 0
          /\ trades \in {t \in TradeTables(2) : DuplicateTrades(t) # {}}
          /\ \E m \in 0..MaxStatsRows : position_close_events \in EventTables(m)

\* getSymbolLossStats(symbol) up to the end of its first read.
GetLossStatsRead24(symbol) ==
    /\ stats.pc = "idle"
    /\ ~verdict.asked
    /\ \E failed \in BOOLEAN :
        stats' = IF failed THEN StatsFailed(symbol, 1)
                 ELSE [pc |-> "read48", symbol |-> symbol,
                       result24h |-> LossRowsWithin(position_close_events, symbol,
                                                    clock, WindowHours)]
    /\ UNCHANGED <<ledger, trades, position_close_events, fix, clock, verdict, penalty, upkeep>>

\* The second read and the return.
GetLossStatsRead48 ==
    /\ stats.pc = "read48"
    /\ \E failed \in BOOLEAN :
        stats' = IF failed THEN StatsFailed(stats.symbol, 2)
                 ELSE [pc |-> "done", symbol |-> stats.symbol, failedAt |-> 0,
                       threw |-> FALSE,
                       result |-> LossStats(stats.result24h,
                                     LossRowsWithin(position_close_events, stats.symbol,
                                                    clock, LongWindowHours))]
    /\ UNCHANGED <<ledger, trades, position_close_events, fix, clock, verdict, penalty, upkeep>>

\* One of the two questions is asked of the store, while the duplicate
\* repair may be running on it.
NextStats ==
    \/ \E symbol \in Symbols : EvaluateCooldown(symbol)
    \/ \E symbol \in Symbols : GetLossStatsRead24(symbol)
    \/ GetLossStatsRead48
    \/ NextRepair

SpecStats == InitStats /\ [][NextStats]_vars

\* ------------------------------------ scoring: calculateHistoricalLossPenalty
\* (variant: the severity tier is added whether or not losses24h > 0)
PenaltyWithFreeTier(s) ==
    (IF s.losses24h > 0 THEN 20 ELSE 0)
    + (IF s.avgLossPercent24h >= 20 * AvgUnit THEN 15
       ELSE IF s.avgLossPercent24h >= 15 * AvgUnit THEN 10
       ELSE IF s.avgLossPercent24h >= 10 * AvgUnit THEN 5
       ELSE 0)
    + (IF s.losses48h >= 2 THEN 20 ELSE 0)
    + (IF s.hasReversalLoss THEN 15 ELSE 0)

\* (variant: the smaller the average, the larger the tier)
PenaltyWithReversedTiers(s) ==
    (IF s.losses24h > 0
     THEN 20 + (IF s.avgLossPercent24h >= 20 * AvgUnit THEN 5
                ELSE IF s.avgLossPercent24h >= 15 * AvgUnit THEN 10
                ELSE IF s.avgLossPercent24h >= 10 * AvgUnit THEN 15
                ELSE 0)
     ELSE 0)
    + (IF s.losses48h >= 2 THEN 20 ELSE 0)
    + (IF s.hasReversalLoss THEN 15 ELSE 0)

\* calculateHistoricalLossPenalty(stats)
CalculateHistoricalLossPenalty(s) ==
    (IF s.losses24h > 0
     THEN 20 + (IF s.avgLossPercent24h >= 20 * AvgUnit THEN 15
                ELSE IF s.avgLossPercent24h >= 15 * AvgUnit THEN 10
                ELSE IF s.avgLossPercent24h >= 10 * AvgUnit THEN 5
                ELSE 0)
     ELSE 0)
    + (IF s.losses48h >= 2 THEN 20 ELSE 0)
    + (IF s.hasReversalLoss THEN 15 ELSE 0)

\* The statistics the calculation is given: any counts up to the bound, an
\* average at, between and beside the thresholds, either flag.
StatsInputs ==
    [losses24h : 0..MaxLosses, losses48h : 0..MaxLosses,
     avgLossPercent24h : {a * AvgUnit : a \in {0, 9, 10, 14, 15, 19, 20, 22}} \cup {10 * AvgUnit - 1},
     hasReversalLoss : BOOLEAN]

InitPenalty ==
    /\ InitLedger
    /\ trades = {}
    /\ position_close_events = {}
    /\ fix = NoFix
    /\ clock = 0
    /\ verdict = NoVerdict
    /\ \E input \in StatsInputs : stats = [pc |-> "given", result |-> input]
    /\ penalty = NoPenalty
    /\ signal = NoSignal
    /\ norm = NoNorm

CalculatePenalty ==
    /\ stats.pc = "given"
    /\ ~penalty.asked
    /\ penalty' = [asked |-> TRUE, value |-> CalculateHistoricalLossPenalty(stats.result)]
    /\ UNCHANGED <<ledger, trades, position_close_events, fix, clock, verdict, stats, upkeep>>

NextPenalty == CalculatePenalty

SpecPenalty == InitPenalty /\ [][NextPenalty]_vars

\* The loss records the statistics are taken from before the score is
\* reduced: losses of BNB of 5% to 22%, closed by the stop or by a trend
\* reversal, eight or thirty-six hours into the first two days.
ScoreEvents ==
    {[trigger_order_id |-> NULL, symbol |-> "BNB", pnl |-> -1, pnl_percent |-> -p,
      close_reason |-> reason, created_at |-> Stamp(Hours(hour), "Z")] :
        p \in {5, 10, 15, 20, 22}, reason \in {"stop_loss", "trend_reversal"},
        hour \in {8, 36}}

ScoreTables(n) ==
    {{[id |-> i] @@ e[i] : i \in 1..n} : e \in [1..n -> ScoreEvents]}

InitScore ==
    /\ InitLedger
    /\ trades = {}
    /\ fix = NoFix
    /\ clock \in ClockHours
    /\ \E n \in 0..MaxStatsRows : position_close_events \in ScoreTables(n)
    /\ verdict = NoVerdict
    /\ stats = NoStats
    /\ penalty = NoPenalty
    /\ signal = NoSignal
    /\ norm = NoNorm

\* const stats = await getSymbolLossStats(symbol);
\* const penalty = calculateHistoricalLossPenalty(stats): the penalty of the
\* struct the statistics returned, whether built from the rows or by the
\* catch branch.
PenaltyOfStats ==
    /\ stats.pc = "done"
    /\ ~penalty.asked
    /\ penalty' = [asked |-> TRUE, value |-> CalculateHistoricalLossPenalty(stats.result)]
    /\ UNCHANGED <<ledger, trades, position_close_events, fix, clock, verdict, stats, upkeep>>

\* The statistics of a symbol are read from the store and scored.
NextScore ==
    \/ \E symbol \in Symbols : GetLossStatsRead24(symbol)
    \/ GetLossStatsRead48
    \/ PenaltyOfStats

SpecScore == InitScore /\ [][NextScore]_vars

\* ------------------------------------------------- reversal: detectReversal
\* Market-state labels are texts, kept as sequences of characters.
Uptrend == <<"u", "p", "t", "r", "e", "n", "d">>
Downtrend == <<"d", "o", "w", "n", "t", "r", "e", "n", "d">>
Oversold == <<"_", "o", "v", "e", "r", "s", "o", "l", "d">>
Overbought == <<"_", "o", "v", "e", "r", "b", "o", "u", "g", "h", "t">>
Continuation == <<"_", "c", "o", "n", "t", "i", "n", "u", "a", "t", "i", "o", "n">>

\* A value of type string | undefined.
Undefined == [defined |-> FALSE, text |-> <<>>]
Str(text) == [defined |-> TRUE, text |-> text]

\* !value
Falsy(value) == ~value.defined \/ value.text = <<>>

\* text.startsWith(prefix)
StartsWith(text, prefix) ==
    /\ Len(text) >= Len(prefix)
    /\ \A i \in 1..Len(prefix) : text[i] = prefix[i]

\* (variant: the side of the position is not looked at)
DetectReversalAnySide(positionSide, entryState, currentState) ==
    IF Falsy(entryState) THEN FALSE
    ELSE \/ StartsWith(entryState.text, Uptrend) /\ StartsWith(currentState.text, Downtrend)
         \/ StartsWith(entryState.text, Downtrend) /\ StartsWith(currentState.text, Uptrend)

\* detectReversal(positionSide, entryState, currentState)
DetectReversal(positionSide, entryState, currentState) ==
    IF Falsy(entryState) THEN FALSE
    ELSE LET isLong == positionSide = "long"
             wasUptrend == StartsWith(entryState.text, Uptrend)
             wasDowntrend == StartsWith(entryState.text, Downtrend)
             nowUptrend == StartsWith(currentState.text, Uptrend)
             nowDowntrend == StartsWith(currentState.text, Downtrend)
         IN  IF isLong /\ wasUptrend /\ nowDowntrend THEN TRUE
             ELSE IF ~isLong /\ wasDowntrend /\ nowUptrend THEN TRUE
             ELSE FALSE

\* The labels a question can carry: the directional ones, bare or with a
\* qualifier, the neutral ones, a text that only begins like a direction, and
\* the empty text.
Qualifiers == {<<>>, Oversold, Overbought, Continuation}
UptrendLabels == {Str(Uptrend \o q) : q \in Qualifiers}
DowntrendLabels == {Str(Downtrend \o q) : q \in Qualifiers}
NeutralLabels ==
    {Str(<<"r", "a", "n", "g", "i", "n", "g">>),
     Str(<<"n", "o", "_", "c", "l", "e", "a", "r", "_", "s", "i", "g", "n", "a", "l">>),
     Str(<<"u", "p">>), Str(<<>>)}
StateLabels == UptrendLabels \cup DowntrendLabels \cup NeutralLabels

\* ------------------------------------------- reversal: the score thresholds
\* "新阈值（已降低）"
HighThreshold == 60
MediumThreshold == 40
LowThreshold == 25

\* reversalScore >= 60: 立即平仓; >= 40: 建议平仓; >= 25: 早期预警
ReversalAction(score) ==
    IF score >= HighThreshold THEN "immediate_close"
    ELSE IF score >= MediumThreshold THEN "advisory_close"
    ELSE IF score >= LowThreshold THEN "early_warning"
    ELSE "none"

\* What the agent instructions tell the agent to do with the score:
\* "reversal≥70→立即全平", "reversal50-70→已盈利立即平,小亏(<5%)平", then
\* "earlyWarning→停止移动止损准备退出"; the earlyWarning mark is taken to be
\* set from the low threshold on.
InstructedAction(score) ==
    IF score >= 70 THEN "immediate_close"
    ELSE IF score >= 50 THEN "advisory_close"
    ELSE IF score >= LowThreshold THEN "early_warning"
    ELSE "none"

\* A question: a reversal to detect, or a score to act on.
InitReversal ==
    /\ InitLedger
    /\ trades = {}
    /\ position_close_events = {}
    /\ fix = NoFix
    /\ clock = 0
    /\ verdict = NoVerdict
    /\ stats = NoStats
    /\ penalty = NoPenalty
    /\ norm = NoNorm
    /\ \/ \E positionSide \in {"long", "short"}, entryState \in StateLabels \cup {Undefined}, currentState \in StateLabels :
            signal = [asked |-> "none", kind |-> "reversal", positionSide |-> positionSide,
                      entryState |-> entryState, currentState |-> currentState]
       \/ \E score \in 0..100 :
            signal = [asked |-> "none", kind |-> "score", reversalScore |-> score]

AskReversal ==
    /\ signal.asked = "none"
    /\ signal.kind = "reversal"
    /\ signal' = [asked |-> "reversal",
                  detected |-> DetectReversal(signal.positionSide, signal.entryState,
                                              signal.currentState)] @@ signal
    /\ UNCHANGED <<ledger, trades, position_close_events, fix, clock, verdict, scoring, norm>>

AskAction ==
    /\ signal.asked = "none"
    /\ signal.kind = "score"
    /\ signal' = [asked |-> "score",
                  action |-> ReversalAction(signal.reversalScore),
                  instructed |-> InstructedAction(signal.reversalScore)] @@ signal
    /\ UNCHANGED <<ledger, trades, position_close_events, fix, clock, verdict, scoring, norm>>

NextReversal == AskReversal \/ AskAction

SpecReversal == InitReversal /\ [][NextReversal]_vars

\* ------------------------------------ upkeep: normalising the timestamps
\* new Date(text).getTime() of a text that is no date.
NaN == -1

\* isNaN(date.getTime())
IsNaN(date) == date = NaN

\* date.toISOString(): 'YYYY-MM-DDTHH:mm:ss.sssZ', the same instant written
\* in UTC. It throws a RangeError on an invalid date.
ToISOString(date) == Stamp(date, "Z")

\* SELECT id, timestamp FROM trades: the rows in rowid order.
SelectIdTimestamp(tr) ==
    [i \in 1..Cardinality(tr) |->
        [id |-> i, timestamp |-> (CHOOSE r \in tr : r.id = i).timestamp]]

\* UPDATE trades SET timestamp = ? WHERE id = ?
UpdateTimestamp(tr, id, newTimestamp) ==
    {IF r.id = id THEN [r EXCEPT !.timestamp = newTimestamp] ELSE r : r \in tr}

\* The fix-timestamps script between two awaits: the loop goes over the rows
\* still at hand up to the next row it has to UPDATE; an invalid date is
\* counted as failed, a text already in the UTC ISO form is passed over. With
\* no row left the counts are printed and the script exits with code 0.
RECURSIVE FixLoop(_)
FixLoop(run) ==
    IF run.rows = <<>>
    THEN [run EXCEPT !.pc = "done"]
            @@ [skipped |-> run.read - run.fixed - run.failed, exit |-> 0]
    ELSE LET row == Head(run.rows)
             date == ParseDate(row.timestamp)
         IN  IF IsNaN(date)
             THEN FixLoop([run EXCEPT !.rows = Tail(@), !.failed = @ + 1])
             ELSE IF row.timestamp # ToISOString(date)
             THEN [run EXCEPT !.pc = "update"]
             ELSE FixLoop([run EXCEPT !.rows = Tail(@)])

\* The script that converts the '+08:00' rows between two awaits: the next
\* row is converted with no test of the date, and toISOString throws on an
\* invalid one: nothing catches it, fixTimestamps rejects. After the last row
\* the script counts the rows that are left.
Plus8Loop(run) ==
    IF run.rows = <<>> THEN [run EXCEPT !.pc = "count"]
    ELSE IF IsNaN(ParseDate(Head(run.rows).timestamp))
    THEN [run EXCEPT !.pc = "failed"]
    ELSE [run EXCEPT !.pc = "update"]

\* The trades tables a normalisation can find: valid texts written with the
\* '.000Z' suffix, with '+08:00' or with '+00:00', and texts that are no
\* date, one of them ending in '+08:00'.
NormStamps ==
    {Stamp(at, zone) : at \in {1, 2}, zone \in Zones \cup {"+00:00"}}
        \cup {Stamp(NaN, zone) : zone \in {"", "+08:00"}}

StampTables(n) ==
    {{[id |-> i, order_id |-> i, type |-> "close", timestamp |-> f[i]] : i \in 1..n} :
        f \in [1..n -> NormStamps]}

InitNormalize ==
    /\ InitLedger
    /\ position_close_events = {}
    /\ fix = NoFix
    /\ clock = 0
    /\ verdict = NoVerdict
    /\ stats = NoStats
    /\ penalty = NoPenalty
    /\ signal = NoSignal
    /\ norm = NoNorm
    /\ \E n \in 0..MaxTradeRows : trades \in StampTables(n)

\* Whether a store call of a run so far has failed.
StoreFailed == \E k \in DOMAIN norm : norm[k].pc # "idle" /\ norm[k].storeFailed

\* The k-th run is started (the runs are numbered as they start, and a run
\* can start while an earlier one is at an await). later: a run before this
\* one has ended normally.
Started(k) ==
    /\ norm[k].pc = "idle"
    /\ k > 1 => norm[k - 1].pc # "idle"

\* fixTimestamps of the fix-timestamps script is called:
\* await SELECT id, timestamp FROM trades. The call stands in no try block:
\* when it fails fixTimestamps rejects, .catch prints the error and the
\* script exits with code 1, with no count printed.
FixTimestamps(k) ==
    /\ Started(k)
    /\ \E failed \in BOOLEAN :
        norm' = [norm EXCEPT ![k] =
                   IF failed
                   THEN [pc |-> "failed", storeFailed |-> TRUE, exit |-> 1]
                   ELSE FixLoop([pc |-> "loop", script |-> "fix-timestamps",
                                 rows |-> SelectIdTimestamp(trades),
                                 before |-> trades, read |-> Cardinality(trades),
                                 fixed |-> 0, failed |-> 0, storeFailed |-> FALSE,
                                 later |-> \E j \in 1..(k - 1) : norm[j].pc = "done"])]
    /\ UNCHANGED <<trades, ledger, position_close_events, fix, clock, verdict, scoring,
                   signal>>

\* await UPDATE trades SET timestamp = ? WHERE id = ? for the row at hand; an
\* UPDATE that fails is caught and counted as failed, and the loop goes on.
FixUpdate(k) ==
    /\ norm[k].pc = "update" /\ norm[k].script = "fix-timestamps"
    /\ \E failed \in BOOLEAN :
        LET row == Head(norm[k].rows)
        IN  /\ trades' = IF failed THEN trades
                         ELSE UpdateTimestamp(trades, row.id,
                                              ToISOString(ParseDate(row.timestamp)))
            /\ norm' = [norm EXCEPT ![k] =
                          FixLoop([@ EXCEPT !.rows = Tail(@),
                                            !.fixed = IF failed THEN @ ELSE @ + 1,
                                            !.failed = IF failed THEN @ + 1 ELSE @,
                                            !.storeFailed = @ \/ failed])]
    /\ UNCHANGED <<ledger, position_close_events, fix, clock, verdict, scoring, signal>>

\* fixTimestamps of the script that converts the '+08:00' rows is called:
\* await SELECT ... WHERE timestamp LIKE '%+08:00'. With no row it returns at
\* once. A rejection of fixTimestamps is printed by console.error.
FixTimestampsPlus8(k) ==
    /\ Started(k)
    /\ \E failed \in BOOLEAN :
       \E rows \in {SelectSeq(SelectIdTimestamp(trades),
                              LAMBDA row : row.timestamp.zone = "+08:00")} :
        norm' = [norm EXCEPT ![k] =
                   IF failed
                   THEN [pc |-> "failed", script |-> "fix-plus8", storeFailed |-> TRUE]
                   ELSE \* if (result.rows.length === 0) return
                        IF rows = <<>>
                        THEN [pc |-> "done", script |-> "fix-plus8", rows |-> rows,
                              before |-> trades, read |-> 0, fixed |-> 0,
                              storeFailed |-> FALSE,
                              later |-> \E j \in 1..(k - 1) : norm[j].pc = "done"]
                        ELSE Plus8Loop([pc |-> "loop", script |-> "fix-plus8",
                                        rows |-> rows, before |-> trades,
                                        read |-> Len(rows), fixed |-> 0,
                                        storeFailed |-> FALSE,
                                        later |-> \E j \in 1..(k - 1) :
                                                     norm[j].pc = "done"])]
    /\ UNCHANGED <<trades, ledger, position_close_events, fix, clock, verdict, scoring,
                   signal>>

\* await UPDATE trades SET timestamp = ? WHERE id = ? for the row at hand; an
\* UPDATE that fails ends the run where it stands.
Plus8Update(k) ==
    /\ norm[k].pc = "update" /\ norm[k].script = "fix-plus8"
    /\ \E failed \in BOOLEAN :
        LET row == Head(norm[k].rows)
        IN  /\ trades' = IF failed THEN trades
                         ELSE UpdateTimestamp(trades, row.id,
                                              ToISOString(ParseDate(row.timestamp)))
            /\ norm' = [norm EXCEPT ![k] =
                          IF failed THEN [@ EXCEPT !.pc = "failed", !.storeFailed = TRUE]
                          ELSE Plus8Loop([@ EXCEPT !.rows = Tail(@), !.fixed = @ + 1])]
    /\ UNCHANGED <<ledger, position_close_events, fix, clock, verdict, scoring, signal>>

\* await SELECT COUNT(*) as count FROM trades WHERE timestamp LIKE '%+08:00':
\* the rows that are left are printed, and the run ends.
Plus8Count(k) ==
    /\ norm[k].pc = "count"
    /\ \E failed \in BOOLEAN :
        norm' = [norm EXCEPT ![k] =
                   IF failed THEN [@ EXCEPT !.pc = "failed", !.storeFailed = TRUE]
                   ELSE [@ EXCEPT !.pc = "done"]
                        @@ [remaining |-> Cardinality({r \in trades :
                                              r.timestamp.zone = "+08:00"})]]
    /\ UNCHANGED <<trades, ledger, position_close_events, fix, clock, verdict, scoring,
                   signal>>

\* The scripts are separate programs on one store: their calls interleave.
NextNormalize ==
    \/ \E k \in DOMAIN norm : FixTimestamps(k)
    \/ \E k \in DOMAIN norm : FixUpdate(k)
    \/ \E k \in DOMAIN norm : FixTimestampsPlus8(k)
    \/ \E k \in DOMAIN norm : Plus8Update(k)
    \/ \E k \in DOMAIN norm : Plus8Count(k)

SpecNormalize == InitNormalize /\ [][NextNormalize]_vars

\* ----------------------------------------------------------- more claims
\* Whether `id` is a leg order id of the position open on `symbol`.
IsLegOf(id, symbol) ==
    /\ id # NULL
    /\ id \in {positions[symbol].sl_order_id, positions[symbol].tp_order_id}

\* C11: reconcile is idempotent, whatever runs beside it. In the steps of a
\* run for one leg the ledger gets at most one row, for that leg's order id
\* and only when no row had it; a leg whose order id the existence check
\* finds in the ledger is not looked up and gets no row; and after every
\* step each leg order id of a position is in at most one row.
C11_ReconcileIdempotent ==
    [][\A w \in Workers :
        (proc[w].pc \in {"check", "lookup", "insert"} /\ proc'[w] # proc[w]) =>
          \E id \in {Head(proc[w].legs).orderId} :
              /\ Len(price_orders') \in {Len(price_orders), Len(price_orders) + 1}
              /\ \A i \in Added : /\ price_orders'[i].order_id = id
                                  /\ ~HasOrderId(price_orders, id)
              /\ (proc[w].pc = "check" /\ HasOrderId(price_orders, id)) =>
                    /\ proc'[w].pc # "lookup"
                    /\ Len(price_orders') = Len(price_orders)
              /\ \A s \in Symbols :
                   \A leg \in {positions'[s].sl_order_id, positions'[s].tp_order_id} \ {NULL} :
                     Cardinality({i \in DOMAIN price_orders' :
                                     price_orders'[i].order_id = leg}) <= 1]_vars

\* A second run: it has found the row of the stop-loss leg of a position,
\* which an earlier run inserted (only a run inserts a triggered row), has
\* inserted nothing for it and stands before the take-profit leg.
C11_Witness ==
    \E w \in Workers :
        /\ proc[w].pc = "check" /\ proc[w].t # NULL
        /\ Head(proc[w].legs).type = "take_profit"
        /\ \E i \in Rows :
             /\ price_orders[i].order_id = Head(proc[w].legs).position.sl_order_id
             /\ price_orders[i].status = "triggered"
             /\ price_orders[i].created_at < proc[w].t
             /\ IsLegOf(price_orders[i].order_id, price_orders[i].symbol)

\* C12: for a leg order id the ledger lacks and the venue knows, the INSERT
\* of a run, when the store accepts it, adds exactly one row, whose status is
\* active when the venue reported open, triggered when it reported finished
\* and cancelled otherwise; the run comes to the INSERT only with an answer
\* of the venue.
C12_InsertedStatusFromVenue ==
    [][\A w \in Workers :
        /\ (proc[w].pc = "lookup" /\ proc'[w].pc = "insert") =>
              proc'[w].status \in VenueAnswers \ {"not_found"}
        /\ (proc[w].pc = "insert" /\ proc'[w] # proc[w]
            /\ price_orders' # price_orders) =>
              /\ Len(price_orders') = Len(price_orders) + 1
              /\ \A i \in Rows : price_orders'[i] = price_orders[i]
              /\ \A i \in Added :
                   /\ price_orders'[i].order_id = Head(proc[w].legs).orderId
                   /\ price_orders'[i].type = Head(proc[w].legs).type
                   /\ price_orders'[i].status =
                        CASE proc[w].status = "open" -> "active"
                          [] proc[w].status = "finished" -> "triggered"
                          [] OTHER -> "cancelled"]_vars

\* Runs have inserted a leg the venue reported finished and a leg it reported
\* neither open nor finished (a row a replacement cancelled has updated_at).
C12_Witness ==
    \E i, j \in Rows :
        /\ price_orders[i].status = "triggered"
        /\ price_orders[j].status = "cancelled"
        /\ price_orders[j].updated_at = NULL
        /\ price_orders[i].symbol = price_orders[j].symbol

\* C13: every row a run of reconcile inserts carries as positionOrderId
\* the entry order id of the position it belongs to.
C13_InsertedRowLinked ==
    [][\A w \in Workers :
        (proc[w].pc = "insert" /\ proc'[w] # proc[w]) =>
            \A i \in Added :
                price_orders'[i].position_order_id =
                    positions[price_orders'[i].symbol].entry_order_id]_vars

\* C14: when the existence check of a run finds the row of a leg order id of
\* a position, the step gives the row the position's entry order id when the
\* row has no positionOrderId, and leaves the positionOrderId of a row that
\* has one.
C14_BackfillIffMissing ==
    [][\A w \in Workers :
        (proc[w].pc = "check" /\ proc'[w] # proc[w]
         /\ proc'[w].pc \in {"check", "stats"}) =>
            \A i \in Rows :
                price_orders[i].order_id = Head(proc[w].legs).orderId =>
                  price_orders'[i].position_order_id =
                    IF price_orders[i].position_order_id = NULL
                    THEN positions[price_orders[i].symbol].entry_order_id
                    ELSE price_orders[i].position_order_id]_vars

\* C15: a failure while one order id is handled (existence check, venue
\* lookup or insert) is isolated: the run goes on to the next leg, or past
\* the last leg to its end.
C15_LegFailureIsolated ==
    [][\A w \in Workers :
        (proc[w].pc \in {"check", "lookup", "insert"} /\ proc'[w] # proc[w]) =>
            proc'[w].pc # "idle"]_vars

\* C19: no step of any handler, however the handlers interleave, changes a
\* row that is triggered or cancelled, and the status of a row changes only
\* from active, to triggered or to cancelled.
C19_TerminalRowsFrozen ==
    [][\A i \in Rows :
         /\ i \in DOMAIN price_orders'
         /\ price_orders[i].status # "active" => price_orders'[i] = price_orders[i]
         /\ price_orders'[i].status # price_orders[i].status =>
              /\ price_orders[i].status = "active"
              /\ price_orders'[i].status \in {"triggered", "cancelled"}]_vars

\* A replacement has just cancelled the active rows of a symbol that already
\* had a row cancelled by an earlier replacement.
C19_Witness ==
    \E w \in Workers :
        /\ proc[w].pc \in {"insert_sl", "insert_tp"}
        /\ \E i, j \in Rows :
             /\ price_orders[i].symbol = proc[w].symbol
             /\ price_orders[i].status = "cancelled"
             /\ price_orders[i].updated_at = proc[w].t
             /\ price_orders[j].symbol = proc[w].symbol
             /\ price_orders[j].status = "cancelled"
             /\ price_orders[j].updated_at # NULL
             /\ price_orders[j].updated_at < proc[w].t

\* The trigger order ids that name an order: neither NULL nor ''.
RealTriggerIds(ev) == {r.trigger_order_id : r \in ev} \ {NULL, Blank}

\* C16: when a run of repairDuplicates has completed, of every order id that
\* had several close-trade rows and of every trigger order id that had
\* several close-event rows exactly one row is left, a chronologically
\* earliest one of the group, and neither table holds a duplicate group.
C16_EarliestOfEachGroupRemains ==
    (fix.run = 1 /\ fix.pc \in {"exit0", "done"}) =>
        /\ \A o \in DuplicateTrades(fix.before.trades) :
             LET group == {r \in fix.before.trades :
                              r.type = "close" /\ r.order_id = o}
                 left  == {r \in trades : r.type = "close" /\ r.order_id = o}
             IN  /\ Cardinality(left) = 1
                 /\ left \subseteq group
                 /\ \A r \in left : \A x \in group :
                      r.timestamp.at <= x.timestamp.at
        /\ \A g \in RealTriggerIds(fix.before.position_close_events) :
             LET group == {r \in fix.before.position_close_events :
                              r.trigger_order_id = g}
                 left  == {r \in position_close_events : r.trigger_order_id = g}
             IN  Cardinality(group) > 1 =>
                   /\ Cardinality(left) = 1
                   /\ left \subseteq group
                   /\ \A r \in left : \A x \in group :
                        r.created_at.at <= x.created_at.at
        /\ DuplicateTrades(trades) = {}
        /\ \A g \in RealTriggerIds(position_close_events) :
             EventCount(position_close_events, g) <= 1

\* C17: repairDuplicates is idempotent. A run that starts right after a run
\* that completed finds no duplicate group, reads and deletes no row, and
\* leaves both tables as it found them.
C17_SecondRunDeletesNothing ==
    (fix.run = 2 /\ fix.prev \in {"exit0", "done"}) =>
        /\ fix.found = 0 /\ fix.totalDeleted = 0
        /\ fix.pc \in {"exit0", "done", "failed"}
        /\ fix.pc = "failed" => fix.failedAt.at = "scanTrades"
        /\ trades = fix.before.trades
        /\ position_close_events = fix.before.position_close_events

\* A run ended right after a run that had deleted duplicates of both tables.
C17_Witness ==
    /\ fix.run = 2 /\ fix.prev = "done" /\ fix.pc = "exit0"
    /\ \E r \in trades : CloseCount(trades, r.order_id) = 1
    /\ \E r \in position_close_events :
         /\ r.trigger_order_id \notin {NULL, Blank}
         /\ EventCount(position_close_events, r.trigger_order_id) = 1
    /\ Cardinality(trades) + Cardinality(position_close_events) = MaxRows - 2

\* C18: a failed read or delete for one duplicate group does not abort the
\* batch: when the run has ended, every other duplicate group the tables
\* held, of either table, is repaired.
C18_GroupFailureIsolated ==
    (/\ fix.run = 1 /\ fix.pc = "failed"
     /\ fix.failedAt.at \in {"readTrades", "deleteTrades", "readEvents", "deleteEvents"}) =>
        /\ \A o \in DuplicateTrades(fix.before.trades) :
             (fix.failedAt.at \in {"readEvents", "deleteEvents"} \/ o # fix.failedAt.group)
               => CloseCount(trades, o) <= 1
        /\ \A g \in RealTriggerIds(fix.before.position_close_events) :
             (fix.failedAt.at \in {"readTrades", "deleteTrades"} \/ g # fix.failedAt.group)
               => EventCount(position_close_events, g) <= 1

\* The losses of the asked symbol closed in the 24 hours before the clock.
RecentLosses ==
    {r \in position_close_events :
        /\ r.symbol = verdict.symbol
        /\ r.pnl < 0
        /\ clock - Hours(24) < r.created_at.at
        /\ r.created_at.at <= clock}

\* C20: for a symbol with exactly one loss in the trailing 24 hours, of 15%
\* or more, the check answers inCooldown with cooldownUntil = closedAt + 12h
\* while now < closedAt + 12h, and not inCooldown from closedAt + 12h on.
C20_SingleLossTwelveHours ==
    (/\ verdict.asked /\ ~verdict.failed
     /\ Cardinality(RecentLosses) = 1
     /\ \A r \in RecentLosses : LossPercent(r) >= 15) =>
        \A r \in RecentLosses :
            IF clock < r.created_at.at + Hours(12)
            THEN verdict.inCooldown /\ verdict.cooldownUntil = r.created_at.at + Hours(12)
            ELSE ~verdict.inCooldown

\* The latest closing time among a set of close events.
LatestClose(rows) == CHOOSE t \in {r.created_at.at : r \in rows} : \A r \in rows : r.created_at.at <= t

\* C21: with exactly two losses in the trailing 24 hours, neither of 15% or
\* more, the check answers inCooldown with cooldownUntil = the closing time of
\* the more recent of the two + 24h.
C21_TwoLossesTwentyFourHours ==
    (/\ verdict.asked /\ ~verdict.failed
     /\ Cardinality(RecentLosses) = 2
     /\ \A r \in RecentLosses : LossPercent(r) < 15) =>
        /\ verdict.inCooldown
        /\ verdict.cooldownUntil = LatestClose(RecentLosses) + Hours(24)

\* C21 happens: two small losses of the last 24 hours were judged, next to an
\* older loss the query also returned.
C21_Witness ==
    /\ verdict.asked /\ ~verdict.failed
    /\ Cardinality(RecentLosses) = 2
    /\ \A r \in RecentLosses : LossPercent(r) < 15
    /\ \E r \in position_close_events \ RecentLosses : r.symbol = verdict.symbol /\ r.pnl < 0
    /\ verdict.cooldownUntil = LatestClose(RecentLosses) + Hours(24)

\* C22 (as claimed): with three or more losses in the trailing 24 hours the
\* check answers inCooldown with cooldownUntil = the closing time of the most
\* recent loss + 48h.
C22_ThreeLossesFortyEightHours ==
    (/\ verdict.asked /\ ~verdict.failed
     /\ Cardinality(RecentLosses) >= 3) =>
        /\ verdict.inCooldown
        /\ verdict.cooldownUntil = LatestClose(RecentLosses) + Hours(48)

\* C23: when a trend_reversal loss closed in the trailing 24 hours and none
\* of the three earlier rules answered, the check answers inCooldown with
\* cooldownUntil = the closing time of the latest such loss + 6h as long as the
\* clock is before that time.
C23_ReversalSixHours ==
    LET reversals == {r \in RecentLosses : r.close_reason = "trend_reversal"}
    IN  (/\ verdict.asked /\ ~verdict.failed
         /\ verdict.rule \notin {1, 2, 3}
         /\ reversals # {}
         /\ clock < LatestClose(reversals) + Hours(6)) =>
            /\ verdict.inCooldown
            /\ verdict.cooldownUntil = LatestClose(reversals) + Hours(6)

\* C23 happens: the reversal rule answered for a loss closed less than six
\* hours before the clock.
C23_Witness ==
    /\ verdict.asked /\ ~verdict.failed
    /\ verdict.rule = 4
    /\ \E r \in RecentLosses :
          /\ r.close_reason = "trend_reversal"
          /\ clock < r.created_at.at + Hours(6)
          /\ verdict.cooldownUntil = r.created_at.at + Hours(6)

\* The rows the query of the asked symbol returns at the clock.
QueriedLosses == LossRows(position_close_events, verdict.symbol, clock)

\* C24: the rules are tried in the order 12h, 24h, 48h and the first one that
\* applies with the clock before its end decides, not the longest: a most
\* recent loss of 15% or more younger than 12h gives closedAt + 12h whatever
\* the number of losses; otherwise two or more losses give closedAt + 24h
\* while that is ahead, and only after it three or more give closedAt + 48h.
\* Every answer inCooldown ends after the clock.
C24_FirstOpenRuleDecides ==
    (verdict.asked /\ ~verdict.failed /\ QueriedLosses # {}) =>
        LET closedAt == LatestClose(QueriedLosses)
            latest == {r \in QueriedLosses : r.created_at.at = closedAt}
            severe == \A r \in latest : LossPercent(r) >= 15
            mild == \A r \in latest : LossPercent(r) < 15
            count == Cardinality(QueriedLosses)
        IN  /\ verdict.inCooldown => clock < verdict.cooldownUntil
            /\ (severe /\ clock < closedAt + Hours(12)) =>
                   verdict.rule = 1 /\ verdict.cooldownUntil = closedAt + Hours(12)
            /\ ((mild \/ clock >= closedAt + Hours(12)) /\ count >= 2
                  /\ clock < closedAt + Hours(24)) =>
                   verdict.rule = 2 /\ verdict.cooldownUntil = closedAt + Hours(24)
            /\ (count >= 3 /\ clock >= closedAt + Hours(24)
                  /\ clock < closedAt + Hours(48)) =>
                   verdict.rule = 3 /\ verdict.cooldownUntil = closedAt + Hours(48)

\* C24 happens: two losses in the trailing 24 hours, the most recent of 15% or
\* more and younger than 12 hours, were answered with closedAt + 12h.
C24_Witness ==
    /\ verdict.asked /\ ~verdict.failed
    /\ Cardinality(RecentLosses) = 2
    /\ \E r \in RecentLosses :
          /\ \A o \in RecentLosses \ {r} : o.created_at.at < r.created_at.at
          /\ LossPercent(r) >= 15
          /\ clock < r.created_at.at + Hours(12)
          /\ verdict.cooldownUntil = r.created_at.at + Hours(12)

\* C25: an answer inCooldown carries remainingHours = the time from the clock
\* to cooldownUntil in hours, rounded up to one decimal: it is positive, not
\* below the remaining time and less than a tenth above it. A single loss of
\* 18% closed two hours before the clock gives cooldownUntil = clock + 10h and
\* remainingHours = 10.0. (remainingHours is counted in tenths.)
C25_RemainingHoursRoundedUp ==
    (verdict.asked /\ verdict.inCooldown) =>
        /\ verdict.remainingHours > 0
        /\ verdict.remainingHours * TicksPerHour >= (verdict.cooldownUntil - clock) * 10
        /\ (verdict.remainingHours - 1) * TicksPerHour < (verdict.cooldownUntil - clock) * 10
        /\ (/\ Cardinality(RecentLosses) = 1
            /\ \A r \in RecentLosses :
                  LossPercent(r) = 18 /\ r.created_at.at = clock - Hours(2)) =>
               /\ verdict.cooldownUntil = clock + Hours(10)
               /\ verdict.remainingHours = 100

\* C25 happens: a remaining time that is not a whole number of tenths was
\* rounded up, here 9.95 hours to 10.0.
C25_Witness ==
    /\ verdict.asked /\ verdict.inCooldown
    /\ ((verdict.cooldownUntil - clock) * 10) % TicksPerHour # 0
    /\ verdict.remainingHours = 100

\* C26 (as claimed): the answer is decided by the losses of the asked symbol
\* closed in the 24 hours before the clock alone: it is the answer the rules
\* give for exactly those losses, most recent first, and is "not in cooldown"
\* when there are none.
C26_OnlyRecentLossesCount ==
    (verdict.asked /\ ~verdict.failed) =>
        \E losses \in SelectLosses(RecentLosses, verdict.symbol, clock) :
            LET answer == IsSymbolInCooldown(losses, clock)
            IN  /\ verdict.inCooldown = answer.inCooldown
                /\ verdict.cooldownUntil = answer.cooldownUntil
                /\ verdict.remainingHours = answer.remainingHours

\* C27: a failed read is answered, not thrown: the cooldown check answers
\* "not in cooldown", and the statistics answer with every count and sum 0 and
\* hasReversalLoss false, whether the first or the second read failed.
C27_ReadsFailOpen ==
    /\ (verdict.asked /\ verdict.failed) => ~verdict.threw /\ ~verdict.inCooldown
    /\ (stats.pc = "done" /\ stats.failedAt # 0) =>
          /\ ~stats.threw
          /\ stats.result.losses24h = 0 /\ stats.result.losses48h = 0
          /\ stats.result.totalLoss24h = 0 /\ stats.result.totalLoss48h = 0
          /\ stats.result.avgLossPercent24h = 0
          /\ ~stats.result.hasReversalLoss

\* C27 happens: the second read of the statistics failed after the first had
\* returned losses.
C27_Witness ==
    /\ stats.pc = "done" /\ stats.failedAt = 2
    /\ LossRowsWithin(position_close_events, stats.symbol, clock, WindowHours) # {}
    /\ stats.result.losses24h = 0

\* C28 (as claimed): every struct the statistics return has
\* losses48h >= losses24h, totalLoss48h <= totalLoss24h <= 0, a zero average
\* when losses24h = 0, and hasReversalLoss only with losses24h >= 1.
C28_StatsConsistent ==
    stats.pc = "done" =>
        /\ stats.result.losses48h >= stats.result.losses24h
        /\ stats.result.totalLoss48h <= stats.result.totalLoss24h
        /\ stats.result.totalLoss24h <= 0
        /\ stats.result.losses24h = 0 => stats.result.avgLossPercent24h = 0
        /\ stats.result.hasReversalLoss => stats.result.losses24h >= 1

\* C29: for the statistics getSymbolLossStats returns, the penalty is the sum
\* of four terms that do not depend on one another: 20 if losses24h > 0, the
\* tier of the average (15 from 20%, 10 from 15%, 5 from 10%, else 0), 20 if
\* losses48h >= 2, 15 if hasReversalLoss; one loss in 24h and in 48h, an
\* average of 22% and a reversal loss give 50.
C29_FourIndependentTerms ==
    penalty.asked =>
        LET s == stats.result
        IN  /\ penalty.value =
                 (IF s.losses24h > 0 THEN 20 ELSE 0)
                 + (IF s.avgLossPercent24h >= 20 * AvgUnit THEN 15
                    ELSE IF s.avgLossPercent24h >= 15 * AvgUnit THEN 10
                    ELSE IF s.avgLossPercent24h >= 10 * AvgUnit THEN 5
                    ELSE 0)
                 + (IF s.losses48h >= 2 THEN 20 ELSE 0)
                 + (IF s.hasReversalLoss THEN 15 ELSE 0)
            /\ (/\ s.losses24h = 1 /\ s.losses48h = 1
                /\ s.avgLossPercent24h = 22 * AvgUnit /\ s.hasReversalLoss) =>
                   penalty.value = 50

\* C29 happens: the statistics of the example were read from the store, from
\* one loss of 22% closed by a trend reversal, and scored 50.
C29_Witness ==
    /\ penalty.asked
    /\ stats.pc = "done" /\ stats.failedAt = 0
    /\ stats.result.losses24h = 1
    /\ stats.result.losses48h = 1
    /\ stats.result.avgLossPercent24h = 22 * AvgUnit
    /\ stats.result.hasReversalLoss
    /\ penalty.value = 50

\* C30: the penalty never falls when the statistics rise: statistics that are
\* at least as large in losses24h, losses48h and the average, and have the
\* reversal flag if the given ones have it, score at least the same.
C30_PenaltyMonotone ==
    penalty.asked =>
        \A other \in StatsInputs :
            (/\ other.losses24h >= stats.result.losses24h
             /\ other.losses48h >= stats.result.losses48h
             /\ other.avgLossPercent24h >= stats.result.avgLossPercent24h
             /\ stats.result.hasReversalLoss => other.hasReversalLoss) =>
                CalculateHistoricalLossPenalty(other) >= penalty.value

\* C30 happens: statistics with a loss in 24 hours and an average on a tier
\* threshold were scored.
C30_Witness ==
    /\ penalty.asked
    /\ stats.result.losses24h > 0
    /\ stats.result.avgLossPercent24h = 15 * AvgUnit
    /\ penalty.value >= 30

\* C31: a reversal is detected exactly when the entry state is known and the
\* position is long, entered in an uptrend and now in a downtrend, or short,
\* entered in a downtrend and now in an uptrend; never with an undefined entry
\* state and never with a neutral current state.
C31_ReversalExactlyOnOppositeTrend ==
    signal.asked = "reversal" =>
        /\ signal.detected <=>
             /\ signal.entryState.defined
             /\ \/ /\ signal.positionSide = "long"
                   /\ signal.entryState \in UptrendLabels
                   /\ signal.currentState \in DowntrendLabels
                \/ /\ signal.positionSide = "short"
                   /\ signal.entryState \in DowntrendLabels
                   /\ signal.currentState \in UptrendLabels
        /\ ~signal.entryState.defined => ~signal.detected
        /\ signal.currentState \in NeutralLabels => ~signal.detected

\* C31 happens: a short position entered in a downtrend was asked about in an
\* uptrend, and the reversal was detected.
C31_Witness ==
    /\ signal.asked = "reversal"
    /\ signal.positionSide = "short"
    /\ signal.entryState = Str(Downtrend \o Overbought)
    /\ signal.currentState = Str(Uptrend \o Continuation)
    /\ signal.detected

\* C32 (as claimed): every score in 0..100 has one action: immediate close
\* from 60, advisory close from 40 to 59, early warning from 25 to 39, none
\* below 25; and every statement of the policy in the source gives that
\* action.
C32_OneTierEverywhere ==
    signal.asked = "score" =>
        LET score == signal.reversalScore
            tier == IF score >= 60 THEN "immediate_close"
                    ELSE IF score >= 40 THEN "advisory_close"
                    ELSE IF score >= 25 THEN "early_warning"
                    ELSE "none"
        IN  signal.action = tier /\ signal.instructed = tier

\* C33 (as claimed): over an unchanged table, an answer inCooldown with
\* cooldownUntil = u is followed, at any time from u on, by the answer "not
\* in cooldown".
C33_TradableFromCooldownUntil ==
    ("first" \in DOMAIN verdict /\ clock >= verdict.first.cooldownUntil) =>
        ~verdict.inCooldown

\* C34: a further loss never lifts a block: when the table without one of
\* its losses of the last 24 hours is answered inCooldown, so is the table
\* with it; and two or more losses in the last 24 hours are always answered
\* inCooldown.
C34_FurtherLossKeepsBlock ==
    (verdict.asked /\ ~verdict.failed) =>
        /\ \A r \in RecentLosses :
              (\E losses \in SelectLosses(position_close_events \ {r}, verdict.symbol, clock) :
                  IsSymbolInCooldown(losses, clock).inCooldown) => verdict.inCooldown
        /\ Cardinality(RecentLosses) >= 2 => verdict.inCooldown

\* C34 happens: a table blocked by one severe loss was extended by a later
\* small loss, and is still blocked.
C34_Witness ==
    /\ verdict.asked /\ ~verdict.failed /\ verdict.inCooldown
    /\ \E r \in RecentLosses :
          /\ LossPercent(r) < 15
          /\ \A o \in QueriedLosses \ {r} : o.created_at.at < r.created_at.at
          /\ \E losses \in SelectLosses(position_close_events \ {r}, verdict.symbol, clock) :
                IsSymbolInCooldown(losses, clock).rule = 1

\* C35: the penalty is a multiple of 5 between 0 and 70, and is 0 exactly
\* when losses24h = 0, losses48h < 2 and hasReversalLoss is false.
C35_PenaltyRange ==
    penalty.asked =>
        /\ penalty.value >= 0
        /\ penalty.value <= 70
        /\ penalty.value % 5 = 0
        /\ penalty.value = 0 <=>
             /\ stats.result.losses24h = 0
             /\ stats.result.losses48h < 2
             /\ ~stats.result.hasReversalLoss

\* C35 happens: the largest penalty, 70, was returned.
C35_Witness ==
    /\ penalty.asked
    /\ stats.result.losses24h > 0 /\ stats.result.losses48h >= 2
    /\ stats.result.hasReversalLoss
    /\ penalty.value = 70

\* C36: no step of a reconciliation, whatever runs beside it and whatever the
\* venue reports, deletes a row or changes a row the ledger holds, its status
\* and trigger price included, except that an empty position_order_id may be
\* filled; a row it adds is the row of the leg it is handling.
C36_ReconcileOnlyAddsAndLinks ==
    [][\A w \in Workers :
        (proc[w].pc \in {"check", "lookup", "insert", "stats"} /\ proc'[w] # proc[w]) =>
            /\ Len(price_orders') >= Len(price_orders)
            /\ \A i \in Rows :
                 /\ price_orders'[i] =
                      [price_orders[i] EXCEPT !.position_order_id =
                                                  price_orders'[i].position_order_id]
                 /\ price_orders'[i].position_order_id
                        # price_orders[i].position_order_id =>
                      price_orders[i].position_order_id = NULL
            /\ \A i \in Added :
                 /\ proc[w].pc = "insert"
                 /\ price_orders'[i].order_id = Head(proc[w].legs).orderId
                 /\ price_orders'[i].trigger_price = Head(proc[w].legs).price]_vars

\* C36 happens: a reconciliation has come to its INSERT for a leg the venue
\* reports finished, and meanwhile the ledger has got the row of that leg,
\* active.
C36_Witness ==
    \E w \in Workers :
        /\ proc[w].pc = "insert" /\ proc[w].status = "finished"
        /\ \E i \in Rows :
             /\ price_orders[i].order_id = Head(proc[w].legs).orderId
             /\ price_orders[i].status = "active"

\* C37 (as claimed): the repair never deletes a close event whose
\* trigger_order_id is NULL or empty.
C37_UnlinkedEventsKept ==
    [][\A r \in position_close_events :
         r.trigger_order_id \in {NULL, Blank} => r \in position_close_events']_vars

\* C38 (as claimed): in trades the repair deletes only rows of type close,
\* and when a first run has completed every order id that had a close row
\* before it has exactly one close row.
C38_OnlyCloseRowsDeleted ==
    [][/\ \A r \in trades \ trades' : r.type = "close"
       /\ (fix'.run = 1 /\ fix'.pc \in {"exit0", "done"}) =>
             \A r \in fix'.before.trades :
                 r.type = "close" =>
                    CloseCount(trades', r.order_id) = 1]_vars

\* C39 (as claimed): when a symbol holds active rows of an earlier position
\* beside those of its newest pair, the read of a replaceProtectivePair
\* returns the positionOrderId of the newest pair.
C39_ReplaceFollowsNewestPair ==
    [][\A w \in Workers :
        (proc[w].pc = "select" /\ proc'[w] # proc[w]) =>
         LET newest == positions[proc[w].symbol].entry_order_id
             linked == {price_orders[i].position_order_id :
                          i \in ActiveOf(price_orders, proc[w].symbol)}
         IN  (/\ newest \in linked
              /\ linked \ {newest, NULL} # {}
              /\ proc'[w].positionOrderId # NULL) =>
                proc'[w].positionOrderId = newest]_vars

\* C40 (as claimed): while no store call has failed, a normalisation run ends
\* normally; after it every row whose timestamp was a date holds the UTC
\* ISO text of the same instant and every row whose timestamp was no date
\* is as it was; the counts it reports add up to the rows it read; and a
\* run that starts after an earlier one has ended updates no row.
C40_NormalizeOnce ==
    \A k \in DOMAIN norm :
        (norm[k].pc \in {"done", "failed"} /\ ~StoreFailed) =>
            /\ norm[k].pc = "done"
            /\ \A r \in norm[k].before :
                  IF ~IsNaN(ParseDate(r.timestamp))
                  THEN [r EXCEPT !.timestamp = ToISOString(ParseDate(r.timestamp))]
                          \in trades
                  ELSE r \in trades
            /\ "failed" \in DOMAIN norm[k] =>
                  norm[k].fixed + norm[k].failed + norm[k].skipped = norm[k].read
            /\ norm[k].later => norm[k].fixed = 0

====
